---------------------------- MODULE Spec2Model ----------------------------
(***************************************************************************)
(* A model of the pake task engine (src/pake/pake.py, class Pake) and of   *)
(* its predecessor (src/pake/make.py, class Make): task registration, the  *)
(* lookups, and the scheduler run with a worker pool.                      *)
(***************************************************************************)
EXTENDS Integers, Sequences, FiniteSets, TLC

(***************************************************************************)
(* Bounds and input sets.                                                  *)
(***************************************************************************)
MaxCalls == 3      \* registration calls of a free registration sequence
MaxGoals == 2      \* length of the goal list handed to run
MaxJobs == 2       \* largest job count handed to run
MaxRuns == 1       \* runs of one engine instance

\* Task names (strings).
Names == {"a", "b", "c", "d"}

\* Function objects: each has an identifier, its __name__.
Funcs == {"fa", "fb", "fc", "fd"}

\* The root node of Pake._graph, TaskGraph("_", lambda: None).
Root == "_"

\* func.__name__
Ident(f) ==
    CASE f = "fa" -> "a"
      [] f = "fb" -> "b"
      [] f = "fc" -> "c"
      [] f = "fd" -> "d"

\* A task reference: a name string or a function object.
Refs == Names \cup Funcs

\* The exceptions of registration and lookup.
Exceptions == {"RedefinedTask", "UndefinedTask"}

NoCall == [kind |-> "none", name |-> "", func |-> "", deps |-> << >>]

(***************************************************************************)
(* State.                                                                  *)
(***************************************************************************)
VARIABLES
    task_contexts,   \* Pake._task_contexts: name -> [func, edges, inner]
    graph_edges,     \* edges of the root node Pake._graph
    ctx_future,      \* TaskContext._future of each task
    script,          \* the registration calls of the build script still to come
    calls,           \* number of registration calls made so far
    lastCall,        \* the last registration call
    lastResult,      \* its outcome: "ok", "outer", "bare" or the exception raised
    regFailed,       \* whether some registration call raised
    pc,              \* where Pake.run stands: idle, seq, pool, raising
    jobs,            \* the jobs argument of the current run
    goals,           \* the tasks argument of the current run
    plan,            \* nodes of the sorted graphs still to be dispatched
    dispatched,      \* tasks dispatched in this run, in order
    futs,            \* futures of the run's ThreadPoolExecutor, in submit order
    exc,             \* exception raised inside the executor block, if any
    invoked,         \* per task, how often its body was invoked in this run
    okdone,          \* tasks that finished successfully or were skipped in this run
    bodyFailed,      \* whether a task body raised in this run
    runResult,       \* "none", "running", "returned", or the exception run raised
    runs,            \* number of runs started
    engine,          \* the class the build script uses: "pake" or "make"
    target_graph,    \* Make._target_graph: function -> [dependencies, io]
    target_funcs_by_name,   \* Make._target_funcs_by_name: name -> function
    task_dict,       \* Make._task_dict: function -> index of its future
    task_dict_lock,  \* holder of Make._task_dict_lock: 0 when free, else a future
    outdated_target_funcs,  \* Make._outdated_target_funcs
    inputs,          \* the realized inputs of the task under change detection
    outputs,         \* its realized outputs
    mtime,           \* the file system: modification time per path, 0 if missing
    dependency,      \* its dependency in this run: "none", "ran" or "skipped"
    dependency_task, \* the work item of the dependency: "none", "running", "done"
    outdated_inputs, \* TaskContext.outdated_inputs, Target._outdated_inputs
    outdated_outputs,   \* TaskContext.outdated_outputs, Target._outdated_outputs
    outcome,         \* what the last detection came to: run, skip or an exception
    detect_pc,       \* where the task stands in its run: idle, detect, body
    detect_runs,     \* number of runs of the task started
    run_count,       \* bodies executed in the run, Make._last_run_count
    lookup,          \* the last lookup: [ref, result], or "none"
    dry_run_mode,    \* Pake._dry_run_mode; for Make, visit in place of execute
    sink,            \* the lines written to Pake.stdout
    ctx_io,          \* TaskContext._io per context: a temporary file, 0 for None
    files,           \* the temporary files: their lines and whether closed
    wrapper,         \* per task, where its func_wrapper stands
    EXPORTS,         \* pake.subpake.EXPORTS, submake._exports: name -> value
    defines,         \* Pake._defines of the calling process
    subpake_call,    \* the arguments of the subpake call under way
    subpake_pc,      \* where the call stands: idle, spawned, exited, done
    child,           \* the child process: stdin, arguments, defines, output, exit code
    subpake_result,  \* how the call ended and what it wrote
    cwd,             \* os.getcwd() of the process
    init_dir,        \* program._init_dir
    directory,       \* parsed_args.directory, "" without --directory
    program_pc,      \* where the driver stands: uninit, init, engine, ran, returned
    program_call,    \* the arguments of program.run and the flags it reads
    run_error,       \* what Pake.run or Pake.dry_run raised to the driver
    program_result,  \* what program.run returned or raised
    declared,        \* the input and output specifiers a task was declared with
    realized         \* the inputs and outputs of its last resolution

regvars == << task_contexts, graph_edges, script, calls, lastCall, lastResult,
              regFailed >>
runvars == << ctx_future, pc, jobs, goals, plan, dispatched, futs, exc, invoked,
              okdone, bodyFailed, runResult, runs >>
makevars == << engine, target_graph, target_funcs_by_name, task_dict,
               task_dict_lock, outdated_target_funcs >>
detectvars == << inputs, outputs, mtime, dependency, dependency_task,
                 outdated_inputs, outdated_outputs, outcome, detect_pc, detect_runs, lookup >>
cdvars == << detectvars, run_count >>
bufvars == << sink, ctx_io, files, wrapper >>
iovars == << dry_run_mode, bufvars >>
subpake_vars == << EXPORTS, defines, subpake_call, subpake_pc, child, subpake_result >>
progvars == << cwd, init_dir, directory, program_pc, program_call, run_error,
               program_result >>
paramvars == << declared, realized >>
subvars == << subpake_vars, progvars, paramvars >>
vars == << regvars, runvars, makevars, cdvars, iovars, subvars >>

(***************************************************************************)
(* Lookups.                                                                *)
(***************************************************************************)
\* pake.util.get_task_arg_name: the name of a task reference.
get_task_arg_name(arg) == IF arg \in Funcs THEN Ident(arg) ELSE arg

\* Pake.get_task_context: the context registered under the reference's name,
\* or UndefinedTaskException.
get_task_context(tc, task) ==
    LET name == get_task_arg_name(task)
    IN  IF name \in DOMAIN tc
        THEN [raised |-> "none", name |-> name, ctx |-> tc[name]]
        ELSE [raised |-> "UndefinedTask", name |-> name, ctx |-> << >>]

\* Reverse lookup, the name of the context found for a reference.
get_task_name(tc, task) ==
    LET r == get_task_context(tc, task)
    IN  IF r.raised = "none" THEN r.name ELSE r.raised

(***************************************************************************)
(* Registration.                                                           *)
(***************************************************************************)
\* Graph.add_edge / Graph.remove_edge on a node's edge set.
add_edge(edges, node) == edges \cup {node}
remove_edge(edges, node) == edges \ {node}

\* The dependency loop with an unresolved dependency passed over instead of
\* raised.
RECURSIVE AddDependenciesLazy(_, _, _, _, _)
AddDependenciesLazy(tc, root, name, deps, i) ==
    IF i > Len(deps)
    THEN [tc |-> tc, root |-> add_edge(root, name), result |-> "ok"]
    ELSE LET dep == get_task_context(tc, deps[i])
         IN  IF dep.raised # "none"
             THEN AddDependenciesLazy(tc, root, name, deps, i + 1)
             ELSE AddDependenciesLazy(
                      [tc EXCEPT ![name].edges = add_edge(@, dep.name)],
                      remove_edge(root, dep.name), name, deps, i + 1)

\* The dependency loop of Pake._add_task, from the i-th dependency on; the
\* task's context is already stored in tc.
RECURSIVE AddDependencies(_, _, _, _, _)
AddDependencies(tc, root, name, deps, i) ==
    IF i > Len(deps)
    THEN [tc |-> tc, root |-> add_edge(root, name), result |-> "ok"]
    ELSE LET dep == get_task_context(tc, deps[i])
         IN  IF dep.raised # "none"
             THEN [tc |-> tc, root |-> root, result |-> dep.raised]
             ELSE AddDependencies(
                      [tc EXCEPT ![name].edges = add_edge(@, dep.name)],
                      remove_edge(root, dep.name), name, deps, i + 1)

\* Pake._add_task(name, func, dependencies)
AddTask(tc, root, name, func, deps) ==
    IF name \in DOMAIN tc
    THEN [tc |-> tc, root |-> root, result |-> "RedefinedTask"]
    ELSE AddDependencies(
             tc @@ (name :> [func |-> func, edges |-> {}, inner |-> FALSE]),
             root, name, deps, 1)

\* The closure `outer` returned by Pake.task: registers func under its own
\* identifier and replaces the node's function by the change detecting `inner`.
TaskOuter(tc, root, func, deps) ==
    LET r == AddTask(tc, root, Ident(func), func, deps)
    IN  IF r.result = "ok"
        THEN [r EXCEPT !.tc = [@ EXCEPT ![Ident(func)].inner = TRUE]]
        ELSE r

\* Whether Pake.task(*args) takes its first branch: one positional argument,
\* a function whose identifier is not registered yet.
TaskIsBare(tc, args) ==
    /\ Len(args) = 1
    /\ args[1] \in Funcs
    /\ Ident(args[1]) \notin DOMAIN tc

\* Pake.task(*args): registers args[0] in the bare form, otherwise returns
\* the decorator `outer` with args as the dependencies and registers nothing.
TaskDecorator(tc, root, args) ==
    IF TaskIsBare(tc, args)
    THEN AddTask(tc, root, Ident(args[1]), args[1], << >>)
    ELSE [tc |-> tc, root |-> root, result |-> "outer"]

\* One registration call of a build script.
\*   add : pk._add_task(name, func, deps)
\*   bare: @pk.task            applied to func
\*   deco: @pk.task(*deps)     applied to func
Register(tc, root, call) ==
    CASE call.kind = "add" -> AddTask(tc, root, call.name, call.func, call.deps)
      [] call.kind = "bare" -> TaskDecorator(tc, root, << call.func >>)
      [] call.kind = "deco" ->
            LET t == TaskDecorator(tc, root, call.deps)
            IN  IF t.result = "outer"
                THEN TaskOuter(tc, root, call.func, call.deps)
                ELSE [t EXCEPT !.result = "bare"]

\* Dependency lists of a free registration call.
FreeNames == {"a", "b", "c"}
FreeFuncs == {"fa", "fb", "fd"}
DepLists == {<< >>} \cup {<< x >> : x \in FreeNames} \cup {<< x, y >> : x, y \in FreeNames}

AllCalls ==
    [kind : {"add"}, name : FreeNames, func : FreeFuncs, deps : DepLists]
    \cup {[kind |-> "bare", name |-> Ident(f), func |-> f, deps |-> << >>] : f \in FreeFuncs}
    \cup {[kind |-> "deco", name |-> Ident(f), func |-> f, deps |-> d] :
              f \in FreeFuncs, d \in DepLists}

DoRegister(call) ==
    LET r == Register(task_contexts, graph_edges, call)
    IN  /\ task_contexts' = r.tc
        /\ graph_edges' = r.root
        /\ lastCall' = call
        /\ lastResult' = r.result
        /\ regFailed' = (regFailed \/ r.result \in Exceptions)
        /\ calls' = calls + 1


\* A registration call with freely chosen arguments.
RegisterAny ==
    /\ calls < MaxCalls
    /\ \E call \in AllCalls : DoRegister(call)
    /\ UNCHANGED script
    /\ UNCHANGED << runvars, makevars >>
    /\ UNCHANGED << cdvars, iovars, subvars >>

\* The next registration call of the build script.
RegisterScript ==
    /\ engine = "pake"
    /\ script # << >>
    /\ DoRegister(Head(script))
    /\ script' = Tail(script)
    /\ UNCHANGED << runvars, makevars >>
    /\ UNCHANGED << cdvars, iovars, subvars >>

add(n, f, d) == [kind |-> "add", name |-> n, func |-> f, deps |-> d]
bare(f) == [kind |-> "bare", name |-> Ident(f), func |-> f, deps |-> << >>]
deco(f, d) == [kind |-> "deco", name |-> Ident(f), func |-> f, deps |-> d]

\* Build scripts: a diamond, a chain beside an independent task, a task that
\* depends on itself, an unregistered dependency with a task named unlike its
\* function, and repeated registrations.
Pakefiles ==
    { << bare("fa"), deco("fb", << "fa" >>), add("c", "fc", << "a" >>),
         add("d", "fd", << "b", "c" >>) >>,
      << bare("fa"), add("b", "fb", << "a" >>), bare("fc") >>,
      << add("a", "fa", << "a" >>), bare("fb"), add("c", "fc", << "a" >>) >>,
      << add("b", "fb", << "a" >>), bare("fa"), add("c", "fd", << "b" >>) >>,
      << bare("fa"), bare("fa"), add("a", "fb", << >>), deco("fa", << >>) >> }

(***************************************************************************)
(* The graph: reachability, cycles and topological sort.                   *)
(***************************************************************************)
\* TaskGraph.edges of a node; the root's edges are Pake._graph's.
NodeEdges(tc, root, n) == IF n = Root THEN root ELSE tc[n].edges

RECURSIVE ReachFrom(_, _, _, _)
ReachFrom(tc, root, frontier, seen) ==
    IF frontier \subseteq seen
    THEN seen
    ELSE LET new == frontier \ seen
         IN  ReachFrom(tc, root,
                       UNION {NodeEdges(tc, root, x) : x \in new}, seen \cup new)

\* The nodes reachable from n, n included.
Reach(tc, root, n) == ReachFrom(tc, root, {n}, {})

\* The transitive dependencies of n.
Below(tc, root, n) == ReachFrom(tc, root, NodeEdges(tc, root, n), {})

HasCycle(tc, root, n) ==
    \E x \in Reach(tc, root, n) : x \in Below(tc, root, x)

\* The orders of the nodes of R in which every node comes after all of its
\* dependencies: a node is placed once none of its dependencies is left.
RECURSIVE OrdersOf(_, _, _)
OrdersOf(tc, root, R) ==
    IF R = {}
    THEN {<< >>}
    ELSE UNION {{<< x >> \o s : s \in OrdersOf(tc, root, R \ {x})} :
                   x \in {y \in R : NodeEdges(tc, root, y) \cap R = {}}}

\* The topological orders of the nodes reachable from n.
TopoOrders(tc, root, n) == OrdersOf(tc, root, Reach(tc, root, n))

\* Graph.topological_sort of node n: CyclicGraphException when a cycle is
\* reachable, otherwise one of the topological orders.
topological_sort(tc, root, n) ==
    IF HasCycle(tc, root, n)
    THEN [raised |-> "CyclicGraph", orders |-> {}]
    ELSE [raised |-> "none", orders |-> TopoOrders(tc, root, n)]

(***************************************************************************)
(* Pake.run                                                                *)
(***************************************************************************)
\* The loop over the goals with a goal whose graph is cyclic left out instead
\* of failing the run.
RECURSIVE TaskGraphsDropCyclic(_, _, _)
TaskGraphsDropCyclic(tc, root, tasks) ==
    IF tasks = << >>
    THEN [raised |-> "none", plans |-> {<< >>}]
    ELSE LET c == get_task_context(tc, Head(tasks))
         IN  IF c.raised # "none"
             THEN [raised |-> c.raised, plans |-> {}]
             ELSE LET g == topological_sort(tc, root, c.name)
                      rest == TaskGraphsDropCyclic(tc, root, Tail(tasks))
                  IN  IF g.raised # "none"
                      THEN rest
                      ELSE IF rest.raised # "none"
                      THEN rest
                      ELSE [raised |-> "none",
                            plans |-> {o \o p : o \in g.orders, p \in rest.plans}]

\* The loop over the goals of Pake.run: each goal is looked up and its node
\* sorted; the graphs are kept one after the other.
RECURSIVE TaskGraphs(_, _, _)
TaskGraphs(tc, root, tasks) ==
    IF tasks = << >>
    THEN [raised |-> "none", plans |-> {<< >>}]
    ELSE LET c == get_task_context(tc, Head(tasks))
         IN  IF c.raised # "none"
             THEN [raised |-> c.raised, plans |-> {}]
             ELSE LET g == topological_sort(tc, root, c.name)
                      rest == TaskGraphs(tc, root, Tail(tasks))
                  IN  IF g.raised # "none"
                      THEN [raised |-> g.raised, plans |-> {}]
                      ELSE IF rest.raised # "none"
                      THEN rest
                      ELSE [raised |-> "none",
                            plans |-> {o \o p : o \in g.orders, p \in rest.plans}]

\* The graphs of a run: those of the goals or, without goals, the root's.
RunGraphs(tc, root, tasks) ==
    IF tasks # << >>
    THEN TaskGraphs(tc, root, tasks)
    ELSE LET g == topological_sort(tc, root, Root)
         IN  [raised |-> g.raised, plans |-> g.orders]

\* Pake.run_count, the number of task functions executed in the run: Make
\* has counted the target when it submitted it.
CountBody(count) == IF engine = "pake" THEN count + 1 ELSE count

\* What calling a task's node function leads to before the body: `inner`
\* may find the task up to date and skip it; func_wrapper looks the context
\* up by the function and may raise; otherwise the body is invoked.
StartOutcomes(tc, n) ==
    (IF tc[n].inner THEN {"skipped"} ELSE {})
    \cup {IF get_task_context(tc, tc[n].func).raised # "none"
          THEN "UndefinedTask" ELSE "body"}

NoFuture == [id |-> 0, st |-> "None", err |-> "none"]

\* The name a work item's task goes by: TaskGraph.name, Target.name.
NameOf(t) == IF t \in Funcs THEN Ident(t) ELSE t

Done(st) == st \in {"ok", "failed"}

\* The future a context's _future refers to: one of the running executor, or
\* one completed in an earlier run.
FutureOf(n) ==
    IF ctx_future[n].id > 0
    THEN [st |-> futs[ctx_future[n].id].st, err |-> futs[ctx_future[n].id].err]
    ELSE [st |-> ctx_future[n].st, err |-> ctx_future[n].err]

\* The contexts' futures once the executor has shut down.
Retired ==
    [n \in Names |-> IF ctx_future[n].id > 0
                     THEN [id |-> 0, st |-> futs[ctx_future[n].id].st,
                           err |-> futs[ctx_future[n].id].err]
                     ELSE ctx_future[n]]

\* Goal lists: task names, registered or not, without repetition.
GoalLists ==
    UNION {{s \in [1..k -> Names] : \A i, j \in 1..k : i # j => s[i] # s[j]} :
               k \in 0..MaxGoals}

\* Pake.run(tasks, jobs) up to the start of the execution.
RunStart ==
    /\ engine = "pake"
    /\ pc = "idle"
    /\ script = << >>
    /\ calls > 0
    /\ runs < MaxRuns
    /\ \E g \in GoalLists, j \in 0..MaxJobs :
          /\ goals' = g
          /\ jobs' = j
          /\ IF j < 1
             THEN /\ runResult' = "ValueError"
                  /\ UNCHANGED << pc, plan >>
             ELSE LET gr == RunGraphs(task_contexts, graph_edges, g)
                  IN  IF gr.raised # "none"
                      THEN /\ runResult' = gr.raised
                           /\ UNCHANGED << pc, plan >>
                      ELSE /\ runResult' = "running"
                           /\ pc' = IF j = 1 THEN "seq" ELSE "pool"
                           /\ \E p \in gr.plans :
                                 plan' = IF j = 1 THEN p
                                         ELSE SelectSeq(p, LAMBDA n : n # Root)
    /\ runs' = runs + 1
    /\ dispatched' = << >>
    /\ invoked' = [n \in Names |-> 0]
    /\ okdone' = {}
    /\ bodyFailed' = FALSE
    /\ exc' = "none"
    /\ UNCHANGED << regvars, ctx_future, futs, makevars >>
    /\ run_count' = 0
    /\ UNCHANGED << detectvars, iovars, subvars >>

\* jobs == 1: the next node of the graphs is called on the calling thread; an
\* exception ends the run.
SeqStep ==
    /\ pc = "seq"
    /\ plan # << >>
    /\ LET n == Head(plan)
       IN  IF n = Root
           THEN /\ plan' = Tail(plan)
                /\ UNCHANGED << pc, dispatched, invoked, okdone, bodyFailed, runResult >>
           ELSE /\ dispatched' = Append(dispatched, n)
                /\ \E o \in StartOutcomes(task_contexts, n), ok \in BOOLEAN :
                      CASE o = "skipped" ->
                               /\ ok
                               /\ okdone' = okdone \cup {n}
                               /\ plan' = Tail(plan)
                               /\ UNCHANGED << pc, invoked, bodyFailed, runResult >>
                        [] o = "UndefinedTask" ->
                               /\ ok
                               /\ runResult' = o
                               /\ pc' = "idle"
                               /\ plan' = << >>
                               /\ UNCHANGED << invoked, okdone, bodyFailed >>
                        [] o = "body" /\ ok ->
                               /\ invoked' = [invoked EXCEPT ![n] = @ + 1]
                               /\ okdone' = okdone \cup {n}
                               /\ plan' = Tail(plan)
                               /\ UNCHANGED << pc, bodyFailed, runResult >>
                        [] o = "body" /\ ~ok ->
                               /\ invoked' = [invoked EXCEPT ![n] = @ + 1]
                               /\ bodyFailed' = TRUE
                               /\ runResult' = "TaskError"
                               /\ pc' = "idle"
                               /\ plan' = << >>
                               /\ UNCHANGED okdone
    /\ UNCHANGED << regvars, ctx_future, jobs, goals, futs, exc, runs, makevars >>
    /\ run_count' = IF invoked' # invoked THEN CountBody(run_count) ELSE run_count
    /\ UNCHANGED << detectvars, iovars, subvars >>

\* jobs == 1: the graphs are exhausted and run returns.
SeqReturn ==
    /\ pc = "seq"
    /\ plan = << >>
    /\ pc' = "idle"
    /\ runResult' = "returned"
    /\ UNCHANGED << regvars, ctx_future, jobs, goals, plan, dispatched, futs, exc,
                    invoked, okdone, bodyFailed, runs, makevars >>
    /\ UNCHANGED << cdvars, iovars, subvars >>

\* _i_submit_self without the wait for the dependencies' futures.
SubmitSelfNoWait(n) ==
    /\ futs' = Append(futs, [task |-> n, st |-> "pending", err |-> "none"])
    /\ ctx_future' = [ctx_future EXCEPT
                        ![n] = [id |-> Len(futs) + 1, st |-> "live", err |-> "none"]]
    /\ dispatched' = Append(dispatched, n)
    /\ plan' = Tail(plan)
    /\ UNCHANGED << pc, exc >>

\* TaskContext._i_submit_self, called by the thread of run for the next node:
\* waits for the futures of the direct dependencies, raises the first
\* exception among them, otherwise submits the node's function.
SubmitSelf(n) ==
    LET deps == task_contexts[n].edges
        failed == {d \in deps : FutureOf(d).st = "failed"}
    IN  /\ \A d \in deps : FutureOf(d).st # "None" => Done(FutureOf(d).st)
        /\ IF \E d \in deps : FutureOf(d).st = "None"
           THEN /\ exc' = "AttributeError"
                /\ pc' = "raising"
                /\ plan' = << >>
                /\ UNCHANGED << futs, ctx_future, dispatched >>
           ELSE IF failed # {}
           THEN /\ exc' = FutureOf(CHOOSE d \in failed : TRUE).err
                /\ pc' = "raising"
                /\ plan' = << >>
                /\ UNCHANGED << futs, ctx_future, dispatched >>
           ELSE /\ futs' = Append(futs, [task |-> n, st |-> "pending", err |-> "none"])
                /\ ctx_future' = [ctx_future EXCEPT
                                    ![n] = [id |-> Len(futs) + 1, st |-> "live",
                                            err |-> "none"]]
                /\ dispatched' = Append(dispatched, n)
                /\ plan' = Tail(plan)
                /\ UNCHANGED << pc, exc >>

Submit ==
    /\ pc = "pool"
    /\ plan # << >>
    /\ SubmitSelf(Head(plan))
    /\ UNCHANGED << regvars, jobs, goals, invoked, okdone, bodyFailed, runResult, runs,
                    makevars >>
    /\ UNCHANGED << cdvars, iovars, subvars >>

Running == {i \in 1..Len(futs) : futs[i].st = "running"}

\* A free worker of the pool takes the oldest pending work item and calls it.
WorkerStart ==
    /\ pc \in {"pool", "raising"}
    /\ Cardinality(Running) < jobs
    /\ \E i \in 1..Len(futs) :
          /\ futs[i].st = "pending"
          /\ \A k \in 1..(i - 1) : futs[k].st # "pending"
          /\ \E o \in StartOutcomes(task_contexts, futs[i].task) :
                CASE o = "skipped" ->
                         /\ futs' = [futs EXCEPT ![i].st = "ok"]
                         /\ okdone' = okdone \cup {futs[i].task}
                         /\ UNCHANGED invoked
                  [] o = "UndefinedTask" ->
                         /\ futs' = [futs EXCEPT ![i].st = "failed", ![i].err = o]
                         /\ UNCHANGED << invoked, okdone >>
                  [] o = "body" ->
                         /\ futs' = [futs EXCEPT ![i].st = "running"]
                         /\ invoked' = [invoked EXCEPT ![futs[i].task] = @ + 1]
                         /\ UNCHANGED okdone
    /\ UNCHANGED << regvars, ctx_future, pc, jobs, goals, plan, dispatched, exc,
                    bodyFailed, runResult, runs, makevars >>
    /\ run_count' = IF invoked' # invoked THEN CountBody(run_count) ELSE run_count
    /\ UNCHANGED << detectvars, iovars, subvars >>

\* A running body returns or raises.
WorkerFinish ==
    /\ \E i \in Running, ok \in BOOLEAN :
          IF ok
          THEN /\ futs' = [futs EXCEPT ![i].st = "ok"]
               /\ okdone' = okdone \cup {NameOf(futs[i].task)}
               /\ UNCHANGED bodyFailed
          ELSE /\ futs' = [futs EXCEPT ![i].st = "failed", ![i].err = "TaskError"]
               /\ bodyFailed' = TRUE
               /\ UNCHANGED okdone
    /\ UNCHANGED << regvars, ctx_future, pc, jobs, goals, plan, dispatched, exc,
                    invoked, runResult, runs, makevars >>
    /\ UNCHANGED << cdvars, iovars, subvars >>

AllDone == \A i \in 1..Len(futs) : Done(futs[i].st)

\* The executor block is left: shutdown waits for every submitted work item,
\* then run returns, or raises the exception that left the block.
PoolExit ==
    /\ \/ pc = "pool" /\ plan = << >> /\ runResult' = "returned"
       \/ pc = "raising" /\ runResult' = exc
    /\ AllDone
    /\ pc' = "idle"
    /\ ctx_future' = Retired
    /\ futs' = << >>
    /\ UNCHANGED << regvars, jobs, goals, plan, dispatched, exc, invoked, okdone,
                    bodyFailed, runs, makevars >>
    /\ UNCHANGED << cdvars, iovars, subvars >>

(***************************************************************************)
(* Make: registration                                                      *)
(***************************************************************************)
\* The exceptions of Make's registration and lookups.
MakeExceptions == {"TargetRedefined", "UndefinedTarget", "KeyError"}

\* The elements of a list.
Range(seq) == {seq[i] : i \in 1..Len(seq)}

\* Make._resolve_target_strings: a string is replaced by the function
\* registered under it, a function is kept as it is.
RECURSIVE resolve_target_strings(_, _, _)
resolve_target_strings(byname, refs, i) ==
    IF i > Len(refs)
    THEN [raised |-> "none", funcs |-> refs]
    ELSE IF refs[i] \in Funcs
    THEN resolve_target_strings(byname, refs, i + 1)
    ELSE IF refs[i] \in DOMAIN byname
    THEN resolve_target_strings(byname, [refs EXCEPT ![i] = byname[refs[i]]], i + 1)
    ELSE [raised |-> "UndefinedTarget", funcs |-> << >>]

\* Make.add_target(target_function, inputs, outputs, depends); io says
\* whether inputs and outputs are declared. Target.__init__ reads the outputs
\* of every dependency with Make.get_target, a KeyError when it is unregistered.
add_target(tg, byname, func, io, depends) ==
    IF func \in DOMAIN tg
    THEN [tg |-> tg, byname |-> byname, result |-> "TargetRedefined"]
    ELSE LET r == resolve_target_strings(byname, depends, 1)
         IN  IF r.raised # "none"
             THEN [tg |-> tg, byname |-> byname, result |-> r.raised]
             ELSE IF \E d \in Range(r.funcs) : d \notin DOMAIN tg
             THEN [tg |-> tg, byname |-> byname, result |-> "KeyError"]
             ELSE [tg |-> tg @@ (func :> [dependencies |-> r.funcs, io |-> io]),
                   byname |-> [n \in DOMAIN byname \cup {Ident(func)} |->
                                  IF n = Ident(func) THEN func ELSE byname[n]],
                   result |-> "ok"]

\* @make.target(inputs, outputs, depends) applied to func, or add_target.
target(f, d) == [kind |-> "target", name |-> Ident(f), func |-> f, deps |-> d]
target_io(f, d) == [kind |-> "target_io", name |-> Ident(f), func |-> f, deps |-> d]

\* Build scripts for Make: a diamond whose dependencies are given by name and
\* by function, and a script with an unregistered name, a repeated function
\* and an unregistered function among its registrations.
Makefiles ==
    { << target("fa", << >>), target_io("fb", << "a" >>), target("fc", << "fa" >>),
         target("fd", << "fb", "c" >>) >>,
      << target("fb", << "a" >>), target_io("fa", << >>), target("fa", << >>),
         target("fc", << "fd" >>), target_io("fb", << "fa" >>) >> }

\* The next registration call of the build script, on a Make instance.
MakeRegisterScript ==
    /\ engine = "make"
    /\ script # << >>
    /\ LET call == Head(script)
           r == add_target(target_graph, target_funcs_by_name, call.func,
                           call.kind = "target_io", call.deps)
       IN  /\ target_graph' = r.tg
           /\ target_funcs_by_name' = r.byname
           /\ lastCall' = call
           /\ lastResult' = r.result
           /\ regFailed' = (regFailed \/ r.result \in MakeExceptions)
    /\ calls' = calls + 1
    /\ script' = Tail(script)
    /\ UNCHANGED << engine, task_contexts, graph_edges, task_dict, task_dict_lock,
                    outdated_target_funcs, runvars >>
    /\ UNCHANGED << cdvars, iovars, subvars >>

(***************************************************************************)
(* Make.execute                                                            *)
(***************************************************************************)
\* The target graph as nodes with edge sets.
TargetEdges(tg) == [f \in DOMAIN tg |-> [edges |-> Range(tg[f].dependencies)]]

\* pake.graph.check_cyclic on the whole target graph.
check_cyclic(tg) == \E f \in DOMAIN tg : f \in Below(TargetEdges(tg), {}, f)

\* The orderings of a finite set.
RECURSIVE Orderings(_)
Orderings(S) ==
    IF S = {} THEN {<< >>}
    ELSE UNION {{<< x >> \o s : s \in Orderings(S \ {x})} : x \in S}

\* Make._sort_graph: the run targets without dependencies come first, in
\* the order of a set; then the other run targets and what they depend on,
\* topologically sorted.
sort_graph(tg, run_targets) ==
    IF check_cyclic(tg)
    THEN [raised |-> "CyclicDependency", plans |-> {}]
    ELSE IF \E f \in Range(run_targets) : f \notin DOMAIN tg
    THEN [raised |-> "KeyError", plans |-> {}]
    ELSE LET no_dep_targets == {f \in Range(run_targets) : tg[f].dependencies = << >>}
             to_visit == Range(run_targets) \ no_dep_targets
             graph_out == ReachFrom(TargetEdges(tg), {}, to_visit, {}) \ no_dep_targets
         IN  [raised |-> "none",
              plans |-> {p \o q : p \in Orderings(no_dep_targets),
                                  q \in OrdersOf(TargetEdges(tg), {}, graph_out)}]

\* Make.set_max_jobs, Make.set_run_targets and Make.execute up to the sort.
ExecuteStart ==
    /\ engine = "make"
    /\ pc = "idle"
    /\ script = << >>
    /\ calls > 0
    /\ runs < MaxRuns
    /\ \E g \in GoalLists, j \in 0..MaxJobs :
          /\ goals' = g
          /\ jobs' = j
          /\ IF j < 1
             THEN /\ runResult' = "ValueError"
                  /\ UNCHANGED << pc, plan >>
             ELSE LET r == resolve_target_strings(target_funcs_by_name, g, 1)
                      gr == sort_graph(target_graph, r.funcs)
                  IN  IF r.raised # "none"
                      THEN /\ runResult' = r.raised
                           /\ UNCHANGED << pc, plan >>
                      ELSE IF gr.raised # "none"
                      THEN /\ runResult' = gr.raised
                           /\ UNCHANGED << pc, plan >>
                      ELSE /\ runResult' = "running"
                           /\ pc' = "exec"
                           /\ \E p \in gr.plans : plan' = p
    /\ runs' = runs + 1
    /\ dispatched' = << >>
    /\ invoked' = [n \in Names |-> 0]
    /\ okdone' = {}
    /\ bodyFailed' = FALSE
    /\ exc' = "none"
    /\ UNCHANGED << regvars, ctx_future, futs, makevars >>
    /\ run_count' = IF pc' = "exec" \/ runResult' = "CyclicDependency"
                    THEN 0 ELSE run_count
    /\ UNCHANGED << detectvars, iovars, subvars >>

\* raise TargetInputNotFound(target_function, i): the constructor formats
\* target_function.name, which a function does not have, so that what leaves
\* the raise statement is an AttributeError.
TargetInputNotFound == "AttributeError"

\* Make._handle_target_out_of_date: what the check of a target can come to.
\* A target without inputs or outputs and without dependencies always runs;
\* the files of a target decide otherwise, and a target whose files are up
\* to date runs when one of its dependencies ran.
OutOfDateOutcomes(tg, outdated, f) ==
    LET depran == Range(tg[f].dependencies) \cap outdated # {}
    IN  IF tg[f].io
        THEN {TargetInputNotFound, "run"} \cup (IF depran THEN {} ELSE {"skip"})
        ELSE IF tg[f].dependencies = << >> \/ depran THEN {"run"} ELSE {"skip"}

\* The loop of Make.execute for the next node: the out of date check and,
\* for a target out of date, the submit of Make._run_target.
ExecuteDispatch ==
    /\ pc = "exec"
    /\ plan # << >>
    /\ LET f == Head(plan)
       IN  \E o \in OutOfDateOutcomes(target_graph, outdated_target_funcs, f) :
              CASE o = "run" ->
                       /\ outdated_target_funcs' = outdated_target_funcs \cup {f}
                       /\ futs' = Append(futs, [task |-> f, st |-> "pending",
                                                err |-> "none"])
                       /\ dispatched' = Append(dispatched, Ident(f))
                       /\ pc' = "exec_register"
                       /\ UNCHANGED << plan, okdone, exc >>
                [] o = "skip" ->
                       /\ okdone' = okdone \cup {Ident(f)}
                       /\ plan' = Tail(plan)
                       /\ UNCHANGED << outdated_target_funcs, futs, dispatched, pc, exc >>
                [] o = TargetInputNotFound ->
                       /\ exc' = o
                       /\ pc' = "exec_raising"
                       /\ plan' = << >>
                       /\ UNCHANGED << outdated_target_funcs, futs, dispatched, okdone >>
    /\ UNCHANGED << regvars, ctx_future, jobs, goals, invoked, bodyFailed, runResult,
                    runs, engine, target_graph, target_funcs_by_name, task_dict,
                    task_dict_lock >>
    /\ run_count' = IF pc' = "exec_register" THEN run_count + 1 ELSE run_count
    /\ UNCHANGED << detectvars, iovars, subvars >>

\* Make._run_target after the submit: the future is entered in _task_dict
\* under the lock.
ExecuteRegisterTask ==
    /\ pc = "exec_register"
    /\ task_dict_lock = 0
    /\ task_dict' = [f \in DOMAIN task_dict \cup {Head(plan)} |->
                        IF f = Head(plan) THEN Len(futs) ELSE task_dict[f]]
    /\ plan' = Tail(plan)
    /\ pc' = "exec"
    /\ UNCHANGED << regvars, ctx_future, jobs, goals, dispatched, futs, exc, invoked,
                    okdone, bodyFailed, runResult, runs, engine, target_graph,
                    target_funcs_by_name, task_dict_lock, outdated_target_funcs >>
    /\ UNCHANGED << cdvars, iovars, subvars >>

\* The work items that occupy a worker thread.
Busy == {i \in 1..Len(futs) : futs[i].st \in {"locking", "deps", "running"}}

\* A free worker of the pool takes the oldest pending work item and enters
\* Make._run_target_task, about to take the lock.
TargetWorkerStart ==
    /\ pc \in {"exec", "exec_register", "exec_raising"}
    /\ Cardinality(Busy) < jobs
    /\ \E i \in 1..Len(futs) :
          /\ futs[i].st = "pending"
          /\ \A k \in 1..(i - 1) : futs[k].st # "pending"
          /\ futs' = [futs EXCEPT ![i].st = "locking"]
    /\ UNCHANGED << regvars, ctx_future, pc, jobs, goals, plan, dispatched, exc,
                    invoked, okdone, bodyFailed, runResult, runs, makevars >>
    /\ UNCHANGED << cdvars, iovars, subvars >>

\* Make._run_target_task takes _task_dict_lock.
TargetWorkerLock ==
    /\ task_dict_lock = 0
    /\ \E i \in 1..Len(futs) :
          /\ futs[i].st = "locking"
          /\ futs' = [futs EXCEPT ![i].st = "deps"]
          /\ task_dict_lock' = i
    /\ UNCHANGED << regvars, ctx_future, pc, jobs, goals, plan, dispatched, exc,
                    invoked, okdone, bodyFailed, runResult, runs, engine,
                    target_graph, target_funcs_by_name, task_dict,
                    outdated_target_funcs >>
    /\ UNCHANGED << cdvars, iovars, subvars >>

\* The dependencies of f, in their order, that have a future in _task_dict.
DepFutures(f) ==
    SelectSeq(target_graph[f].dependencies, LAMBDA d : d \in DOMAIN task_dict)

\* The position of the first failed future among the dependencies', 0 if none.
FirstFailed(deps) ==
    LET bad == {k \in 1..Len(deps) : futs[task_dict[deps[k]]].st = "failed"}
    IN  IF bad = {} THEN 0 ELSE CHOOSE k \in bad : \A m \in bad : k <= m

\* The body of Make._run_target_task, holding the lock: the futures of the
\* dependencies are waited for one after the other, the exception of the
\* first failed one is raised, otherwise the target function is called.
RunTargetTask(i) ==
    LET deps == DepFutures(futs[i].task)
        k == FirstFailed(deps)
        upto == IF k = 0 THEN Len(deps) ELSE k
    IN  /\ \A m \in 1..upto : Done(futs[task_dict[deps[m]]].st)
        /\ IF k = 0
           THEN /\ futs' = [futs EXCEPT ![i].st = "running"]
                /\ invoked' = [invoked EXCEPT ![Ident(futs[i].task)] = @ + 1]
           ELSE /\ futs' = [futs EXCEPT ![i].st = "failed",
                                        ![i].err = futs[task_dict[deps[k]]].err]
                /\ UNCHANGED invoked

\* A worker holding the lock gets through the dependencies and releases it.
TargetWorkerDeps ==
    /\ task_dict_lock # 0
    /\ futs[task_dict_lock].st = "deps"
    /\ RunTargetTask(task_dict_lock)
    /\ task_dict_lock' = 0
    /\ UNCHANGED << regvars, ctx_future, pc, jobs, goals, plan, dispatched, exc,
                    okdone, bodyFailed, runResult, runs, engine, target_graph,
                    target_funcs_by_name, task_dict, outdated_target_funcs >>
    /\ UNCHANGED << cdvars, iovars, subvars >>

\* Make.execute leaves the executor block, whose shutdown waits for every
\* submitted work item: it returns after clearing _outdated_target_funcs and
\* _task_dict, or raises the exception of the out of date check.
ExecuteExit ==
    /\ AllDone
    /\ \/ /\ pc = "exec"
          /\ plan = << >>
          /\ runResult' = "returned"
          /\ outdated_target_funcs' = {}
          /\ task_dict' = << >>
          /\ futs' = << >>
       \/ /\ pc = "exec_raising"
          /\ runResult' = exc
          /\ UNCHANGED << outdated_target_funcs, task_dict, futs >>
    /\ pc' = "idle"
    /\ UNCHANGED << regvars, ctx_future, jobs, goals, plan, dispatched, exc, invoked,
                    okdone, bodyFailed, runs, engine, target_graph,
                    target_funcs_by_name, task_dict_lock >>
    /\ UNCHANGED << cdvars, iovars, subvars >>

(***************************************************************************)
(* Change detection: one task with declared inputs and outputs, the file   *)
(* system it looks at, and what a run decides about it.  Modification      *)
(* times are counted in units of 0.05 s; a path with time 0 does not       *)
(* exist.                                                                  *)
(***************************************************************************)
MaxTime == 4
MaxDetectRuns == 2
\* Make._is_input_newer: the 0.1 s by which an input has to be newer.
Tolerance == 2
InputFiles == << "i1", "i2" >>
OutputFiles == << "o1", "o2" >>
Files == Range(InputFiles) \cup Range(OutputFiles)
DependencyKinds == {"none", "ran", "skipped"}

\* os.path.isfile, os.path.exists and os.path.getmtime.
isfile(fs, path) == fs[path] > 0
getmtime(fs, path) == fs[path]

\* The elements of a list at the positions K, in the order of the list.
RECURSIVE SelectAt(_, _, _)
SelectAt(seq, K, k) ==
    IF k > Len(seq) THEN << >>
    ELSE (IF k \in K THEN << seq[k] >> ELSE << >>) \o SelectAt(seq, K, k + 1)

NoError == "none"
DetectionSwapped(raised, oi, oo) == [raised |-> raised, inputs |-> oo, outputs |-> oi]
\* return outdated_inputs, outdated_outputs
Detection(raised, oi, oo) == [raised |-> raised, inputs |-> oi, outputs |-> oo]

\* Pake._change_detect: every result the call can give for the inputs i and
\* the outputs o.  The branch of differing lengths collects into sets, whose
\* order when they are turned into lists is not fixed.
change_detect(i, o, fs) ==
    LET older(op, ip) == ~isfile(fs, op) \/ getmtime(fs, op) < getmtime(fs, ip)
        missing_input == \E k \in 1..Len(i) : ~isfile(fs, i[k])
        not_found == {Detection("FileNotFoundError", << >>, << >>)}
    IN  IF Len(i) > 0 /\ Len(o) = 0
        THEN {Detection("ValueError", << >>, << >>)}
        ELSE IF Len(i) = 0 /\ Len(o) = 0
        THEN {Detection(NoError, << >>, << >>)}
        ELSE IF Len(o) > 1
        THEN IF Len(i) = 0
             THEN {Detection(NoError, << >>,
                             SelectAt(o, {k \in 1..Len(o) : ~isfile(fs, o[k])}, 1))}
             ELSE IF Len(o) # Len(i)
             THEN IF missing_input THEN not_found
                  ELSE LET input_set == {ip \in Range(i) : \E op \in Range(o) : older(op, ip)}
                           output_set == {op \in Range(o) : \E ip \in Range(i) : older(op, ip)}
                       IN  {Detection(NoError, a, b) :
                               a \in Orderings(input_set), b \in Orderings(output_set)}
             ELSE IF missing_input THEN not_found
                  ELSE LET K == {k \in 1..Len(i) : older(o[k], i[k])}
                       IN  {Detection(NoError, SelectAt(i, K, 1), SelectAt(o, K, 1))}
        ELSE IF ~isfile(fs, o[1])
        THEN {Detection(NoError, i, << o[1] >>)}
        ELSE IF missing_input THEN not_found
        ELSE LET K == {k \in 1..Len(i) : getmtime(fs, o[1]) < getmtime(fs, i[k])}
             IN  {Detection(NoError, SelectAt(i, K, 1),
                            IF K = {} THEN << >> ELSE << o[1] >>)}

\* Make._is_input_newer.
is_input_newer(fs, input_file, output_file) ==
    getmtime(fs, input_file) - getmtime(fs, output_file) > Tolerance

\* Make._handle_target_out_of_date for a target with the inputs i and the
\* outputs o: whether it raised, whether the target is out of date, and the
\* lists of the target, to which Target._add_outdated_input_output appends.
handle_target_out_of_date(i, o, fs, dep, old_inputs, old_outputs) ==
    LET result(raised, run, all) ==
            [raised |-> raised, run |-> run,
             inputs |-> IF all THEN old_inputs \o i ELSE old_inputs,
             outputs |-> IF all THEN old_outputs \o o ELSE old_outputs]
        outdated(k) == ~isfile(fs, o[k]) \/ is_input_newer(fs, i[k], o[k])
        K == {k \in 1..Len(i) : outdated(k)}
    IN  IF \E k \in 1..Len(i) : ~isfile(fs, i[k])
        THEN result(TargetInputNotFound, FALSE, FALSE)
        ELSE IF (Len(i) = 0 \/ Len(o) = 0) /\ dep = "none"
        THEN result(NoError, TRUE, FALSE)
        ELSE IF Len(i) = Len(o) /\ K # {}
        THEN [raised |-> NoError, run |-> TRUE,
              inputs |-> old_inputs \o SelectAt(i, K, 1),
              outputs |-> old_outputs \o SelectAt(o, K, 1)]
        ELSE IF /\ Len(i) # Len(o)
                /\ \E op \in Range(o) :
                      \/ ~isfile(fs, op)
                      \/ \E ip \in Range(i) : is_input_newer(fs, ip, op)
        THEN result(NoError, TRUE, TRUE)
        ELSE IF dep = "ran"
        THEN result(NoError, TRUE, TRUE)
        ELSE result(NoError, FALSE, FALSE)

\* A run or a dry run (Pake.dry_run, Make.visit) reaches the task: its
\* dependency, if it has one, ran or was skipped.  Pake calls or submits the
\* task when the function of its dependency has returned; the loop of
\* Make.execute reaches the target when its dependency has been submitted,
\* whose function may be running still.
DetectStart ==
    /\ detect_pc = "idle"
    /\ dependency_task # "running"
    /\ detect_runs < MaxDetectRuns
    /\ detect_runs' = detect_runs + 1
    /\ detect_pc' = "detect"
    /\ run_count' = 0
    /\ dry_run_mode' \in BOOLEAN
    /\ dependency' \in (IF dependency = "none" THEN {"none"} ELSE {"ran", "skipped"})
    /\ dependency_task' \in
          IF dependency' # "ran" \/ dry_run_mode' THEN {"none"}
          ELSE IF engine = "make" THEN {"running", "done"}
          ELSE {"done"}
    /\ UNCHANGED << inputs, outputs, mtime, outdated_inputs, outdated_outputs, outcome,
                    lookup, regvars, runvars, makevars, bufvars, subvars >>

\* func_wrapper of Pake._add_task, called for a task found eligible: in dry
\* run mode it prints the visited line, otherwise it calls the task function.
func_wrapper_ignoring_mode(dry) == "run"
func_wrapper(dry) == IF dry THEN "visited" ELSE "run"

\* The inner function of Pake.task: change detection, then the decision to
\* call the task function.  An exception of the detection leaves the context
\* as it was.
inner ==
    /\ engine = "pake"
    /\ detect_pc = "detect"
    /\ \E d \in change_detect(inputs, outputs, mtime) :
          IF d.raised # NoError
          THEN /\ outcome' = d.raised
               /\ detect_pc' = "idle"
               /\ UNCHANGED << outdated_inputs, outdated_outputs >>
          ELSE /\ outdated_inputs' = d.inputs
               /\ outdated_outputs' = d.outputs
               /\ outcome' = IF Len(inputs) > 0 \/ Len(outputs) > 0
                             THEN IF Len(d.inputs) > 0 \/ Len(d.outputs) > 0
                                  THEN func_wrapper(dry_run_mode)
                                  ELSE "skip"
                             ELSE func_wrapper(dry_run_mode)
               /\ detect_pc' = IF outcome' = "run" THEN "body" ELSE "idle"
    /\ UNCHANGED << inputs, outputs, mtime, dependency, dependency_task, detect_runs,
                    run_count, lookup,
                    regvars, runvars, makevars, iovars, subvars >>

\* The step of Make.execute for the target: the out of date check, the run
\* counter, and the submit of the target.
ExecuteTarget ==
    /\ engine = "make"
    /\ ~dry_run_mode
    /\ detect_pc = "detect"
    /\ LET d == handle_target_out_of_date(inputs, outputs, mtime, dependency,
                                          outdated_inputs, outdated_outputs)
       IN  /\ outdated_inputs' = d.inputs
           /\ outdated_outputs' = d.outputs
           /\ IF d.raised # NoError
              THEN outcome' = d.raised /\ detect_pc' = "idle" /\ UNCHANGED run_count
              ELSE IF d.run
              THEN outcome' = "run" /\ detect_pc' = "body" /\ run_count' = run_count + 1
              ELSE outcome' = "skip" /\ detect_pc' = "idle" /\ UNCHANGED run_count
    /\ UNCHANGED << inputs, outputs, mtime, dependency, dependency_task, detect_runs,
                    lookup,
                    regvars, runvars, makevars, iovars, subvars >>

\* Make.visit adds no target to _outdated_target_funcs: the dependency of
\* the target, visited or not, is not found there.
visited_dependency == IF dependency = "none" THEN "none" ELSE "skipped"

\* The step of Make.visit for the target: the out of date check, the run
\* counter, and the call of the visitor in place of the target function.
VisitTarget ==
    /\ engine = "make"
    /\ dry_run_mode
    /\ detect_pc = "detect"
    /\ LET d == handle_target_out_of_date(inputs, outputs, mtime, visited_dependency,
                                          outdated_inputs, outdated_outputs)
       IN  /\ outdated_inputs' = d.inputs
           /\ outdated_outputs' = d.outputs
           /\ IF d.raised # NoError
              THEN outcome' = d.raised /\ UNCHANGED run_count
              ELSE IF d.run
              THEN outcome' = "visited" /\ run_count' = run_count + 1
              ELSE outcome' = "skip" /\ UNCHANGED run_count
    /\ detect_pc' = "idle"
    /\ UNCHANGED << inputs, outputs, mtime, dependency, dependency_task, detect_runs,
                    lookup,
                    regvars, runvars, makevars, iovars, subvars >>

\* The task function runs: it writes its outputs, or it writes nothing.
TaskBody ==
    /\ detect_pc = "body"
    /\ dependency_task # "running"
    /\ detect_pc' = "idle"
    /\ \/ mtime' = [f \in Files |-> IF f \in Range(outputs) THEN MaxTime ELSE mtime[f]]
       \/ UNCHANGED mtime
    /\ run_count' = CountBody(run_count)
    /\ UNCHANGED << inputs, outputs, dependency, dependency_task, outdated_inputs,
                    outdated_outputs, outcome, detect_runs, lookup, regvars, runvars,
                    makevars, iovars, subvars >>

\* The function of the dependency, running on a worker of Make.execute,
\* returns: it has written the first input of the task, or nothing.
DependencyBody ==
    /\ dependency_task = "running"
    /\ dependency_task' = "done"
    /\ \/ /\ inputs # << >>
          /\ mtime' = [mtime EXCEPT ![inputs[1]] = MaxTime]
       \/ UNCHANGED mtime
    /\ UNCHANGED << inputs, outputs, dependency, outdated_inputs, outdated_outputs,
                    outcome, detect_pc, detect_runs, run_count, lookup, regvars,
                    runvars, makevars, iovars, subvars >>

(***************************************************************************)
(* Task output: every task function runs inside func_wrapper, which opens  *)
(* the buffer of the task's context, and on the way out writes the buffer  *)
(* to Pake.stdout and closes it.  Pake.stdout is sys.stdout, the default.  *)
(***************************************************************************)
MaxLines == 1
IOPakefiles ==
    { << bare("fa"), bare("fb") >>,
      << bare("fa"), deco("fb", << "fa" >>) >>,
      << add("c", "fd", << >>), bare("fd") >> }

NoWrapper == [pc |-> "none", ctx |-> "", raised |-> "none", buffered |-> 0]
TemporaryFile == [lines |-> << >>, closed |-> FALSE]
Line(t, text) == [task |-> t, text |-> text]

\* The wrappers that have opened a buffer and not yet left the finally block.
Active == {t \in Names : wrapper[t].pc \in {"opened", "body", "finally"}}
Failed == {t \in Names : wrapper[t].pc = "finished" /\ wrapper[t].raised # "none"}

\* Pake.run or Pake.dry_run of the whole graph, up to the start of the
\* execution; a dry run is a run with one job.
IORunStart ==
    /\ engine = "pake"
    /\ pc = "idle"
    /\ script = << >>
    /\ runs = 0
    /\ \E dry \in BOOLEAN, j \in 1..MaxJobs :
          /\ dry => j = 1
          /\ jobs' = j
          /\ LET gr == RunGraphs(task_contexts, graph_edges, << >>)
             IN  IF gr.raised # "none"
                 THEN /\ runResult' = gr.raised
                      /\ dry_run_mode' = FALSE
                      /\ UNCHANGED << pc, plan >>
                 ELSE /\ runResult' = "running"
                      /\ dry_run_mode' = dry
                      /\ pc' = "io"
                      /\ \E p \in gr.plans : plan' = SelectSeq(p, LAMBDA n : n # Root)
    /\ runs' = 1
    /\ wrapper' = [n \in Names |-> NoWrapper]
    /\ UNCHANGED << regvars, ctx_future, goals, dispatched, futs, exc, invoked, okdone,
                    bodyFailed, makevars, cdvars, sink, ctx_io, files, subvars >>

\* The failure that stops the run before the next task: with one job any
\* task that raised, with more jobs a failed dependency of the next task,
\* whose exception _i_submit_self raises.
StopsRun ==
    IF jobs = 1
    THEN Failed # {}
    ELSE plan # << >> /\ task_contexts[Head(plan)].edges \cap Failed # {}

\* The next task of the order is called, or submitted and picked up by a
\* free worker once its dependencies are done: func_wrapper looks the context
\* up by the function and opens its buffer (TaskContext._i_io_open).
WrapperOpen ==
    /\ pc = "io"
    /\ plan # << >>
    /\ Cardinality(Active) < jobs
    /\ LET t == Head(plan)
           c == get_task_context(task_contexts, task_contexts[t].func)
       IN  /\ \A d \in task_contexts[t].edges : wrapper[d].pc = "finished"
           /\ ~StopsRun
           /\ IF c.raised # "none"
              THEN /\ wrapper' = [wrapper EXCEPT ![t].pc = "finished",
                                                 ![t].raised = c.raised]
                   /\ UNCHANGED << files, ctx_io >>
              ELSE /\ files' = Append(files, TemporaryFile)
                   /\ ctx_io' = [ctx_io EXCEPT ![c.name] = Len(files) + 1]
                   /\ wrapper' = [wrapper EXCEPT ![t].pc = "opened", ![t].ctx = c.name]
    /\ plan' = Tail(plan)
    /\ UNCHANGED << regvars, ctx_future, pc, jobs, goals, dispatched, futs, exc, invoked,
                    okdone, bodyFailed, runResult, runs, makevars, cdvars,
                    dry_run_mode, sink, subvars >>

\* ctx.print of func_wrapper: the visited line of a dry run, or the
\* executing line, after which the task function is called.
WrapperPrint ==
    /\ \E t \in Names :
          /\ wrapper[t].pc = "opened"
          /\ LET f == ctx_io[wrapper[t].ctx]
             IN  IF files[f].closed
                 THEN /\ wrapper' = [wrapper EXCEPT ![t].pc = "finally",
                                                    ![t].raised = "ValueError"]
                      /\ UNCHANGED files
                 ELSE /\ files' = [files EXCEPT ![f].lines =
                                      Append(@, Line(t, IF dry_run_mode THEN "visited"
                                                        ELSE "executing"))]
                      /\ wrapper' = [wrapper EXCEPT
                                        ![t].pc = IF func_wrapper(dry_run_mode) = "run"
                                                  THEN "body" ELSE "finally",
                                        ![t].buffered = @ + 1]
    /\ UNCHANGED << regvars, runvars, makevars, cdvars, dry_run_mode, sink, ctx_io,
                    subvars >>

\* The task function prints through the context it was handed, its own:
\* into the buffer of that context, or, the context having no buffer, to
\* sys.stdout; a closed buffer raises ValueError.
BodyPrint ==
    /\ \E t \in Names :
          /\ wrapper[t].pc = "body"
          /\ wrapper[t].buffered <= MaxLines
          /\ LET f == ctx_io[t]
             IN  IF f = 0
                 THEN /\ sink' = Append(sink, Line(t, "unbuffered"))
                      /\ wrapper' = [wrapper EXCEPT ![t].pc = "finally"]
                      /\ UNCHANGED files
                 ELSE IF files[f].closed
                 THEN /\ wrapper' = [wrapper EXCEPT ![t].pc = "finally",
                                                    ![t].raised = "ValueError"]
                      /\ UNCHANGED << files, sink >>
                 ELSE /\ files' = [files EXCEPT ![f].lines = Append(@, Line(t, "line"))]
                      /\ wrapper' = [wrapper EXCEPT ![t].buffered = @ + 1]
                      /\ UNCHANGED sink
    /\ UNCHANGED << regvars, runvars, makevars, cdvars, dry_run_mode, ctx_io, subvars >>

\* The task function returns or raises.
BodyReturn ==
    /\ \E t \in Names, ok \in BOOLEAN :
          /\ wrapper[t].pc = "body"
          /\ wrapper' = [wrapper EXCEPT ![t].pc = "finally",
                                        ![t].raised = IF ok THEN "none" ELSE "TaskError"]
    /\ UNCHANGED << regvars, runvars, makevars, cdvars, dry_run_mode, sink, ctx_io,
                    files, subvars >>

\* The finally block of func_wrapper, TaskContext._i_io_close: the buffer is
\* rewound, written to Pake.stdout with one write, and closed; rewinding a
\* closed buffer raises ValueError.
WrapperClose ==
    /\ \E t \in Names :
          /\ wrapper[t].pc = "finally"
          /\ LET f == ctx_io[wrapper[t].ctx]
             IN  IF files[f].closed
                 THEN /\ wrapper' = [wrapper EXCEPT ![t].pc = "finished",
                                                    ![t].raised = "ValueError"]
                      /\ UNCHANGED << files, sink >>
                 ELSE /\ sink' = sink \o files[f].lines
                      /\ files' = [files EXCEPT ![f].closed = TRUE]
                      /\ wrapper' = [wrapper EXCEPT ![t].pc = "finished"]
    /\ UNCHANGED << regvars, runvars, makevars, cdvars, dry_run_mode, ctx_io, subvars >>

\* Pake.run returns or raises: the order is exhausted or a failure stopped
\* it, and every wrapper has left its finally block; the finally block of
\* dry_run puts dry-run mode off.
IORunEnd ==
    /\ pc = "io"
    /\ Active = {}
    /\ plan = << >> \/ StopsRun
    /\ pc' = "idle"
    /\ plan' = << >>
    /\ runResult' = IF plan # << >> \/ (jobs = 1 /\ Failed # {})
                    THEN "raised" ELSE "returned"
    /\ dry_run_mode' = FALSE
    /\ UNCHANGED << regvars, ctx_future, jobs, goals, dispatched, futs, exc, invoked,
                    okdone, bodyFailed, runs, makevars, cdvars, bufvars, subvars >>

(***************************************************************************)
(* Define values and their texts.  A text is a sequence of characters; a   *)
(* value is an integer, a boolean, a string or a list of such.             *)
(***************************************************************************)
IntV(n) == [kind |-> "int", v |-> n]
BoolV(b) == [kind |-> "bool", v |-> b]
StrV(s) == [kind |-> "str", v |-> s]
ListV(l) == [kind |-> "list", v |-> l]

Digit == << "1", "2", "3", "4", "5", "6", "7", "8", "9" >>
TrueText == << "T", "r", "u", "e" >>
FalseText == << "F", "a", "l", "s", "e" >>

\* The define values of the model: for each value that is not a string, the
\* string that reads like it.
DefineValues ==
    { IntV(1), StrV(<< "1" >>), BoolV(TRUE), StrV(TrueText), StrV(<< "x" >>),
      ListV(<< IntV(1) >>), StrV(<< "[", "1", "]" >>) }
DefineNames == { << "V" >> }
\* The mappings from names to values.
Stores ==
    UNION { [D -> DefineValues] : D \in SUBSET DefineNames }

RECURSIVE Join(_, _)
Join(texts, sep) ==
    IF texts = << >> THEN << >>
    ELSE IF Len(texts) = 1 THEN texts[1]
    ELSE texts[1] \o sep \o Join(Tail(texts), sep)

\* repr of a value: a string in quotes, a list of the repr of its elements.
RECURSIVE repr(_)
repr(x) ==
    IF x.kind = "int" THEN << Digit[x.v] >>
    ELSE IF x.kind = "bool" THEN (IF x.v THEN TrueText ELSE FalseText)
    ELSE IF x.kind = "str" THEN << "'" >> \o x.v \o << "'" >>
    ELSE << "[" >> \o Join([i \in 1..Len(x.v) |-> repr(x.v[i])], << ",", " " >>) \o << "]" >>

\* A mutation of repr that leaves the quotes of a string out.
repr_unquoted(x) ==
    IF x.kind = "str" THEN x.v ELSE repr(x)

\* str of a value: a string is its own text, every other value its repr.
str(x) ==
    IF x.kind = "str" THEN x.v ELSE repr(x)

\* The keys of a mapping in some order.
RECURSIVE Keys(_)
Keys(D) ==
    IF D = {} THEN << >>
    ELSE LET k == CHOOSE k \in D : TRUE IN << k >> \o Keys(D \ {k})

\* repr of a dict whose keys are strings.
repr_dict(d) ==
    << "{" >>
    \o Join([i \in 1..Cardinality(DOMAIN d) |->
                LET k == Keys(DOMAIN d)[i]
                IN  repr(StrV(k)) \o << ":", " " >> \o repr(d[k])], << ",", " " >>)
    \o << "}" >>

SyntaxError == [kind |-> "error", v |-> "SyntaxError"]

\* pake.util.parse_define_value: the value whose literal the text is, and
\* SyntaxError for a text that is no literal.
parse_define_value(text) ==
    IF \E x \in DefineValues : repr(x) = text
    THEN CHOOSE x \in DefineValues : repr(x) = text
    ELSE SyntaxError

\* The literal mapping a text stands for, the reading of --stdin-defines.
literal_eval_dict(text) ==
    IF \E d \in Stores : repr_dict(d) = text
    THEN CHOOSE d \in Stores : repr_dict(d) = text
    ELSE SyntaxError

Put(d, k, x) == [n \in DOMAIN d \cup {k} |-> IF n = k THEN x ELSE d[n]]

\* str.split('=', maxsplit=1) of a define token.
FirstEq(token) ==
    IF \E i \in 1..Len(token) : token[i] = "="
    THEN CHOOSE i \in 1..Len(token) :
            token[i] = "=" /\ \A j \in 1..(i - 1) : token[j] # "="
    ELSE 0
split(token) ==
    IF FirstEq(token) = 0 THEN << token >>
    ELSE << SubSeq(token, 1, FirstEq(token) - 1),
            SubSeq(token, FirstEq(token) + 1, Len(token)) >>

\* str.strip of a name.
RECURSIVE strip(_)
strip(s) ==
    IF s # << >> /\ Head(s) = " " THEN strip(Tail(s))
    ELSE IF s # << >> /\ s[Len(s)] = " " THEN strip(SubSeq(s, 1, Len(s) - 1))
    ELSE s

\* program._defines_to_dict: the store the -D tokens of a command line give,
\* or ValueError for a token whose value is no literal.
RECURSIVE defines_to_dict(_)
defines_to_dict(tokens) ==
    IF tokens = << >> THEN [raised |-> "none", store |-> << >>]
    ELSE LET rest == defines_to_dict(SubSeq(tokens, 1, Len(tokens) - 1))
             d == split(tokens[Len(tokens)])
             value == IF Len(d) = 1 THEN BoolV(TRUE) ELSE parse_define_value(d[2])
         IN  IF rest.raised # "none" THEN rest
             ELSE IF value.kind = "error" THEN [raised |-> "ValueError", store |-> << >>]
             ELSE [raised |-> "none", store |-> Put(rest.store, strip(d[1]), value)]

\* submake._exports_to_args: a -D token name=str(value) for every export.
exports_to_args(exports) ==
    [i \in 1..Cardinality(DOMAIN exports) |->
        LET k == Keys(DOMAIN exports)[i] IN k \o << "=" >> \o str(exports[k])]

(***************************************************************************)
(* Running another build script: pake.subpake, which hands the exports to  *)
(* the child through its stdin, and submake.run_script, which hands them   *)
(* over as -D arguments.                                                   *)
(***************************************************************************)
MaxExit == 2
ChildOutputs == { << >>, << "out" >> }

\* The working directories, and the values of --directory.
Dirs == {"start", "build", "other"}
Directories == {"", "build"}

\* The -D tokens of a command line: none, a bare name, a name with the
\* literal of a value, and a name with a text that is no literal.
DefineArgs ==
    { << >> }
    \cup { << k >> : k \in DefineNames }
    \cup { << k \o << "=" >> \o repr(x) >> : k \in DefineNames, x \in DefineValues }
    \cup { << k \o << "=", "x" >> >> : k \in DefineNames }

\* TaskContext.subpake: pake.subpake with the script and silent of the task
\* and every other parameter at its default.
TaskContext_subpake ==
    [bridge : {"ctx.subpake"}, script : {"missing", "file"}, silent : BOOLEAN,
     ignore_errors : {FALSE}, exit_on_error : {TRUE}, collect_output : {FALSE}]

SubpakeCalls ==
    [bridge : {"subpake"}, script : {"none", "missing", "file"}, silent : BOOLEAN,
     ignore_errors : BOOLEAN, exit_on_error : BOOLEAN, collect_output : BOOLEAN]
    \cup [bridge : {"run_script"}, script : {"missing", "file"}, silent : {FALSE},
          ignore_errors : {FALSE}, exit_on_error : {FALSE}, collect_output : {FALSE}]
    \cup TaskContext_subpake

NoException == [cmd |-> << >>, returncode |-> 0, output |-> << >>]
Result(kind, code, name, out, err, ex) ==
    [kind |-> kind, code |-> code, name |-> name, stdout |-> out, stderr |-> err,
     ex |-> ex]

\* The command line of the child, without the nesting depth and the
\* directory.
ChildCommand(args) ==
    IF args.bridge # "run_script"
    THEN << "sys.executable", "pakefile.py", "--_subpake_depth", "--stdin-defines" >>
    ELSE << "sys.executable", "pakefile.py", "-C" >>

\* program.init of the calling process: the working directory is recorded,
\* the defines of the command line are set, a bad one ending the process,
\* and the directory of --directory is entered.
program_init ==
    /\ subpake_pc = "idle"
    /\ program_pc = "uninit"
    /\ init_dir' = cwd
    /\ \E tokens \in DefineArgs, dir \in Directories :
          LET d == defines_to_dict(tokens)
          IN  /\ directory' = dir
              /\ IF d.raised # "none"
                 THEN /\ subpake_pc' = "done"
                      /\ subpake_result' = Result("exit", 0, "BAD_DEFINE_VALUE", << >>,
                                                  << d.raised >>, NoException)
                      /\ program_pc' = "exited"
                      /\ UNCHANGED << defines, cwd >>
                 ELSE /\ defines' = d.store
                      /\ cwd' = IF dir # "" /\ dir # cwd THEN dir ELSE cwd
                      /\ program_pc' = "init"
                      /\ UNCHANGED << subpake_pc, subpake_result >>
    /\ UNCHANGED << regvars, runvars, makevars, cdvars, iovars, EXPORTS, subpake_call,
                    child, program_call, run_error, program_result, paramvars >>

\* pake.export, submake.export.
export ==
    /\ subpake_pc = "idle"
    /\ \E name \in DefineNames, value \in DefineValues :
          EXPORTS' = Put(EXPORTS, name, value)
    /\ UNCHANGED << regvars, runvars, makevars, cdvars, iovars, progvars, paramvars, defines, subpake_call,
                    subpake_pc, child, subpake_result >>

\* subpake and run_script up to the start of the child: the arguments are
\* checked, the child is spawned, and subpake writes repr(EXPORTS) to its
\* stdin, while run_script has put the exports on its command line.
subpake_spawn ==
    /\ subpake_pc = "idle"
    /\ \E args \in SubpakeCalls :
          /\ subpake_call' = args
          /\ IF args.script = "none"
             THEN /\ subpake_pc' = "done"
                  /\ subpake_result' = Result("raise", 0, "ValueError", << >>, << >>,
                                              NoException)
                  /\ UNCHANGED child
             ELSE IF args.script = "missing"
             THEN /\ subpake_pc' = "done"
                  /\ subpake_result' = Result("raise", 0, "FileNotFoundError", << >>,
                                              << >>, NoException)
                  /\ UNCHANGED child
             ELSE /\ subpake_pc' = "spawned"
                  /\ \E reads \in BOOLEAN :
                        child' = [stdin |-> IF args.bridge # "run_script"
                                            THEN repr_dict(EXPORTS) ELSE << >>,
                                  define |-> IF args.bridge # "run_script" THEN << >>
                                             ELSE exports_to_args(EXPORTS),
                                  reads_stdin |-> reads /\ args.bridge # "run_script",
                                  defines |-> << >>, output |-> << >>, exitcode |-> 0]
                  /\ UNCHANGED subpake_result
    /\ UNCHANGED << regvars, runvars, makevars, cdvars, iovars, progvars, paramvars, EXPORTS, defines >>

\* The startup of the child, program.init: its defines are those of its -D
\* arguments; a child whose argument parser reads the mapping of
\* --stdin-defines has those merged in.  A bad define ends the child.
child_init ==
    /\ subpake_pc = "spawned"
    /\ LET d == defines_to_dict(child.define)
           m == IF child.reads_stdin THEN literal_eval_dict(child.stdin) ELSE << >>
       IN  IF d.raised # "none"
           THEN /\ \E code \in 1..MaxExit :
                      child' = [child EXCEPT !.exitcode = code, !.output = << d.raised >>]
                /\ subpake_pc' = "exited"
           ELSE /\ child' = [child EXCEPT !.defines =
                                [k \in DOMAIN d.store \cup DOMAIN m |->
                                    IF k \in DOMAIN m THEN m[k] ELSE d.store[k]]]
                /\ subpake_pc' = "started"
    /\ UNCHANGED << regvars, runvars, makevars, cdvars, iovars, progvars, paramvars, EXPORTS, defines,
                    subpake_call, subpake_result >>

\* The child runs, writes its output and exits.
child_exit ==
    /\ subpake_pc = "started"
    /\ \E code \in 0..MaxExit, out \in ChildOutputs :
          child' = [child EXCEPT !.exitcode = code, !.output = out]
    /\ subpake_pc' = "exited"
    /\ UNCHANGED << regvars, runvars, makevars, cdvars, iovars, progvars, paramvars, EXPORTS, defines,
                    subpake_call, subpake_result >>

\* StreamingSubprocessException.write_info: the message and the output.
write_info(ex) == << "message" >> \o ex.output

\* A mutation of subpake that lets ignore_errors go unheeded.
subpake_heeding_errors(args, process) ==
    LET out == IF args.silent THEN << >> ELSE process.output
        ex == [cmd |-> ChildCommand(args), returncode |-> process.exitcode,
               output |-> process.output]
    IN  IF process.exitcode # 0
        THEN IF args.exit_on_error
             THEN Result("exit", 0, "SUBPAKE_EXCEPTION", out, write_info(ex), ex)
             ELSE Result("raise", 0, "SubpakeException", out, << >>, ex)
        ELSE Result("return", process.exitcode, "", out, << >>, NoException)

\* A mutation of subpake that captures no output of a silent call.
subpake_silent_uncaptured(args, process) ==
    LET out == IF args.silent THEN << >> ELSE process.output
        ex == [cmd |-> ChildCommand(args), returncode |-> process.exitcode,
               output |-> out]
    IN  IF args.ignore_errors
        THEN Result("return", process.exitcode, "", out, << >>, NoException)
        ELSE IF process.exitcode # 0
        THEN IF args.exit_on_error
             THEN Result("exit", 0, "SUBPAKE_EXCEPTION", out, write_info(ex), ex)
             ELSE Result("raise", 0, "SubpakeException", out, << >>, ex)
        ELSE Result("return", process.exitcode, "", out, << >>, NoException)

\* The rest of subpake: the output of the child goes where the flags say,
\* and its exit code is returned, raised as SubpakeException, or ends the
\* process.
subpake(args, process) ==
    LET out == IF args.silent THEN << >> ELSE process.output
        ex == [cmd |-> ChildCommand(args), returncode |-> process.exitcode,
               output |-> process.output]
    IN  IF args.ignore_errors
        THEN Result("return", process.exitcode, "", out, << >>, NoException)
        ELSE IF process.exitcode # 0
        THEN IF args.exit_on_error
             THEN Result("exit", 0, "SUBPAKE_EXCEPTION", out, write_info(ex), ex)
             ELSE Result("raise", 0, "SubpakeException", out, << >>, ex)
        ELSE Result("return", process.exitcode, "", out, << >>, NoException)

\* The rest of run_script: the output is written to sys.stdout, and a child
\* that failed is raised as SubMakeException.
run_script(args, process) ==
    LET ex == [cmd |-> ChildCommand(args), returncode |-> process.exitcode,
               output |-> process.output]
    IN  IF process.exitcode # 0
        THEN Result("raise", 0, "SubMakeException", process.output, << >>, ex)
        ELSE Result("return", 0, "", process.output, << >>, NoException)

subpake_wait ==
    /\ subpake_pc = "exited"
    /\ subpake_result' = IF subpake_call.bridge # "run_script"
                         THEN subpake(subpake_call, child)
                         ELSE run_script(subpake_call, child)
    /\ subpake_pc' = "done"
    /\ UNCHANGED << regvars, runvars, makevars, cdvars, iovars, progvars, paramvars, EXPORTS, defines,
                    subpake_call, child >>

(***************************************************************************)
(* The driver, program.py: init reads the command line and enters the      *)
(* directory of --directory, run checks the arguments, calls Pake.run or   *)
(* Pake.dry_run and turns the outcome into a return code.                  *)
(***************************************************************************)
NoRunError == [kind |-> "none", cause |-> "none"]
\* What Pake.run and Pake.dry_run raise; a TaskException carries the
\* exception of the task function.
RunErrors ==
    { NoRunError }
    \cup [kind : {"InputNotFoundException", "MissingOutputsException",
                  "UndefinedTaskException", "CyclicGraphException"},
          cause : {"none"}]
    \cup [kind : {"TaskException"},
          cause : {"SubpakeException", "SubprocessException", "Exception"}]
DryRunErrors == {e \in RunErrors : e.kind # "TaskException"}

\* SubpakeException derives from SubprocessException.
isinstance(ex, class) ==
    \/ ex = class
    \/ class = "Exception"
    \/ ex = "SubpakeException" /\ class = "SubprocessException"

ProgramCalls ==
    [tasks : {<< >>, << "a" >>}, cli_tasks : {<< >>, << "a" >>}, jobs : {"None", "0", "1"},
     dry_run : BOOLEAN, show_tasks : BOOLEAN, show_task_info : BOOLEAN]
NoProgramCall ==
    [tasks |-> << >>, cli_tasks |-> << >>, jobs |-> "None", dry_run |-> FALSE,
     show_tasks |-> FALSE, show_task_info |-> FALSE]

\* pake.run of program.py, from the task count check to the choice of the
\* tasks to run: the return code, or "run" when the engine gets called.
program_run(task_count, run_tasks) ==
    IF task_count = 0 THEN "NO_TASKS_DEFINED"
    ELSE IF run_tasks = << >> THEN "NO_TASKS_SPECIFIED"
    ELSE "run"

\* The build script changes the working directory between init and run.
chdir ==
    /\ program_pc = "init"
    /\ \E d \in Dirs : cwd' = d
    /\ UNCHANGED << regvars, runvars, makevars, cdvars, iovars, subpake_vars, paramvars, init_dir,
                    directory, program_pc, program_call, run_error, program_result >>

\* A mutation of the return code of a TaskException that asks for
\* SubprocessException first.
task_exception_code_subprocess_first(cause) ==
    IF isinstance(cause, "SubprocessException") THEN "TASK_SUBPROCESS_EXCEPTION"
    ELSE IF isinstance(cause, "SubpakeException") THEN "SUBPAKE_EXCEPTION"
    ELSE "TASK_EXCEPTION"

\* The return code of a TaskException, by the exception it carries.
task_exception_code(cause) ==
    IF isinstance(cause, "SubpakeException") THEN "SUBPAKE_EXCEPTION"
    ELSE IF isinstance(cause, "SubprocessException") THEN "TASK_SUBPROCESS_EXCEPTION"
    ELSE "TASK_EXCEPTION"

\* The return code of the except clauses of run.
return_code(err) ==
    IF err.kind = "none" THEN "SUCCESS"
    ELSE IF err.kind = "InputNotFoundException" THEN "TASK_INPUT_NOT_FOUND"
    ELSE IF err.kind = "MissingOutputsException" THEN "TASK_OUTPUT_MISSING"
    ELSE IF err.kind = "UndefinedTaskException" THEN "UNDEFINED_TASK"
    ELSE IF err.kind = "CyclicGraphException" THEN "CYCLIC_DEPENDENCY"
    ELSE task_exception_code(err.cause)

\* run up to the call of the engine: the checks of the arguments and of the
\* tasks, each with its early return, the return to the directory of
\* --directory, and the check of the jobs parameter of a run.
program_run_begin ==
    /\ program_pc = "init"
    /\ script = << >>
    /\ \E call \in ProgramCalls :
          LET run_tasks == IF call.cli_tasks # << >> THEN call.cli_tasks ELSE call.tasks
              early == IF call.show_tasks /\ call.show_task_info THEN "BAD_ARGUMENTS"
                       ELSE IF Cardinality(DOMAIN task_contexts) = 0
                       THEN "NO_TASKS_DEFINED"
                       ELSE IF call.show_tasks \/ call.show_task_info THEN "SUCCESS"
                       ELSE program_run(Cardinality(DOMAIN task_contexts), run_tasks)
          IN  /\ program_call' = call
              /\ IF early # "run"
                 THEN /\ program_pc' = "returned"
                      /\ program_result' = [kind |-> "return", code |-> early]
                      /\ UNCHANGED cwd
                 ELSE /\ cwd' = IF directory # "" /\ cwd # directory THEN directory
                                ELSE cwd
                      /\ IF ~call.dry_run /\ call.jobs = "0"
                         THEN /\ program_pc' = "returned"
                              /\ program_result' = [kind |-> "raise", code |-> "ValueError"]
                         ELSE /\ program_pc' = "engine"
                              /\ UNCHANGED program_result
    /\ UNCHANGED << regvars, runvars, makevars, cdvars, iovars, subpake_vars, paramvars, init_dir,
                    directory, run_error >>

\* Pake.run or Pake.dry_run: it returns or raises, and the task functions of
\* a run may have changed the working directory.
program_run_engine ==
    /\ program_pc = "engine"
    /\ run_error' \in IF program_call.dry_run THEN DryRunErrors ELSE RunErrors
    /\ \E d \in (IF program_call.dry_run THEN {cwd} ELSE {cwd, "other"}) : cwd' = d
    /\ program_pc' = "ran"
    /\ UNCHANGED << regvars, runvars, makevars, cdvars, iovars, subpake_vars, paramvars, init_dir,
                    directory, program_call, program_result >>

\* The rest of run: a dry run returns at once with 0 or the code of its
\* error; a run sets the code of its error, goes back to the directory
\* recorded at init and returns.
program_run_end ==
    /\ program_pc = "ran"
    /\ program_result' = [kind |-> "return", code |-> return_code(run_error)]
    /\ cwd' = IF program_call.dry_run THEN cwd
              ELSE IF init_dir # cwd THEN init_dir ELSE cwd
    /\ program_pc' = "returned"
    /\ UNCHANGED << regvars, runvars, makevars, cdvars, iovars, subpake_vars, paramvars, init_dir,
                    directory, program_call, run_error >>

(***************************************************************************)
(* The input and output specifiers of a task of Pake: a path, a deferred   *)
(* producer (pake.glob), a pattern transformer (pake.pattern), or a list   *)
(* of these, resolved by Pake._process_i_o_params when the task is called. *)
(***************************************************************************)
NoSpec == [kind |-> "None", v |-> << >>]
PathSpec(p) == [kind |-> "path", v |-> p]
GlobSpec == [kind |-> "glob", v |-> "i*"]
PatternSpec == [kind |-> "pattern", v |-> "o%"]
ListSpec(l) == [kind |-> "list", v |-> l]

InputSpecs ==
    { NoSpec, PathSpec("i1"), GlobSpec, ListSpec(<< GlobSpec >>),
      ListSpec(<< PathSpec("i2"), GlobSpec >>) }
OutputSpecs ==
    { NoSpec, PathSpec("o1"), PatternSpec, ListSpec(<< PatternSpec >>),
      ListSpec(<< PathSpec("o2"), PatternSpec >>) }

callable(x) == x.kind \in {"glob", "pattern"}

\* The producer of pake.glob: the input files there are.
input_generator(fs) ==
    LET found == SelectSeq(InputFiles, LAMBDA f : isfile(fs, f))
    IN  [k \in 1..Len(found) |-> PathSpec(found[k])]

\* The path a pattern makes of an input: the name of the input put in place
\* of the % of the pattern.
Template(inp) ==
    LET k == CHOOSE k \in 1..Len(InputFiles) : InputFiles[k] = inp.v
    IN  PathSpec(OutputFiles[k])

\* The transformer of pake.pattern: one path for every input.
output_generator(realized_inputs) ==
    [k \in 1..Len(realized_inputs) |-> Template(realized_inputs[k])]

\* pake.util.flatten_non_str: the elements of the lists in place of the
\* lists.
RECURSIVE flatten_non_str(_)
flatten_non_str(l) ==
    IF l = << >> THEN << >>
    ELSE (IF Head(l).kind = "list" THEN flatten_non_str(Head(l).v) ELSE << Head(l) >>)
         \o flatten_non_str(Tail(l))

\* A mutation of the second loop of _process_i_o_params that goes through
\* the outputs.
OutputLoopOverOutputs(o, i) ==
    [idx \in 1..Len(o) |->
        IF callable(o[idx]) THEN ListSpec(output_generator(i)) ELSE o[idx]]

\* The second loop of _process_i_o_params: it goes through the realized
\* inputs, none of which is callable, and leaves the outputs as they are.
OutputLoop(o, i) ==
    [idx \in 1..Len(o) |->
        IF idx <= Len(i) /\ callable(i[idx]) THEN ListSpec(output_generator(i))
        ELSE o[idx]]

\* Pake._process_i_o_params: the realized inputs and outputs, and the
\* declared specifiers as the call leaves them.  The first loop writes the
\* result of every producer into the list it was handed.
process_i_o_params(i, o, fs) ==
    LET i_list == IF i.kind = "None" THEN << >>
                  ELSE IF callable(i) THEN input_generator(fs)
                  ELSE IF i.kind = "path" THEN << i >>
                  ELSE i.v
        i_called == [idx \in 1..Len(i_list) |->
                        IF callable(i_list[idx]) THEN ListSpec(input_generator(fs))
                        ELSE i_list[idx]]
        i_flat == flatten_non_str(i_called)
        o_list == IF o.kind = "None" THEN << >>
                  ELSE IF callable(o) THEN output_generator(i_flat)
                  ELSE IF o.kind = "path" THEN << o >>
                  ELSE o.v
        o_called == OutputLoop(o_list, i_flat)
    IN  [i |-> i_flat,
         o |-> flatten_non_str(o_called),
         declared_i |-> IF i.kind = "list" THEN ListSpec(i_called) ELSE i,
         declared_o |-> IF o.kind = "list" THEN ListSpec(o_called) ELSE o]

\* The inner function of Pake.task resolves the specifiers of the task.
ResolveParams ==
    /\ detect_runs < MaxDetectRuns + 1
    /\ detect_runs' = detect_runs + 1
    /\ LET r == process_i_o_params(declared.i, declared.o, mtime)
       IN  /\ realized' = [i |-> r.i, o |-> r.o]
           /\ declared' = [i |-> r.declared_i, o |-> r.declared_o]
    /\ UNCHANGED << regvars, runvars, makevars, inputs, outputs, mtime, dependency,
                    dependency_task, outdated_inputs, outdated_outputs, outcome,
                    detect_pc, lookup, run_count, iovars, subpake_vars, progvars >>

\* Between two runs an input file appears or disappears.
FilesChange ==
    /\ detect_runs > 0
    /\ \E f \in Range(InputFiles) :
          mtime' = [mtime EXCEPT ![f] = IF @ = 0 THEN 1 ELSE 0]
    /\ UNCHANGED << regvars, runvars, makevars, inputs, outputs, dependency,
                    dependency_task, outdated_inputs, outdated_outputs, outcome,
                    detect_pc, detect_runs, lookup, run_count, iovars, subvars >>

(***************************************************************************)
(* Lookups by a caller of the instance.                                    *)
(***************************************************************************)
NoLookup == [op |-> "none", ref |-> "none", result |-> "none"]

\* Make.get_target: a string goes through _target_funcs_by_name, a function
\* straight into _target_graph; either subscript raises KeyError.
get_target(byname, tg, ref) ==
    IF ref \in Names
    THEN IF ref \in DOMAIN byname THEN byname[ref] ELSE "KeyError"
    ELSE IF ref \in DOMAIN tg THEN ref ELSE "KeyError"

\* pk.get_task_context(ref)
LookupTaskContext ==
    /\ engine = "pake"
    /\ \E ref \in Refs :
          LET r == get_task_context(task_contexts, ref)
          IN  lookup' = [op |-> "get_task_context", ref |-> ref,
                         result |-> IF r.raised = "none" THEN r.name ELSE r.raised]
    /\ UNCHANGED << regvars, runvars, makevars, inputs, outputs, mtime, dependency,
                    dependency_task,
                    outdated_inputs, outdated_outputs, outcome, detect_pc,
                    detect_runs, run_count, iovars, subvars >>

\* pk.get_task_name(ref)
LookupTaskName ==
    /\ engine = "pake"
    /\ \E ref \in Refs :
          lookup' = [op |-> "get_task_name", ref |-> ref,
                     result |-> get_task_name(task_contexts, ref)]
    /\ UNCHANGED << regvars, runvars, makevars, inputs, outputs, mtime, dependency,
                    dependency_task,
                    outdated_inputs, outdated_outputs, outcome, detect_pc,
                    detect_runs, run_count, iovars, subvars >>

\* make.get_target(ref)
LookupTarget ==
    /\ engine = "make"
    /\ \E ref \in Refs :
          lookup' = [op |-> "get_target", ref |-> ref,
                     result |-> get_target(target_funcs_by_name, target_graph, ref)]
    /\ UNCHANGED << regvars, runvars, makevars, inputs, outputs, mtime, dependency,
                    dependency_task,
                    outdated_inputs, outdated_outputs, outcome, detect_pc,
                    detect_runs, run_count, iovars, subvars >>

(***************************************************************************)
(* Specifications.                                                         *)
(***************************************************************************)
InitRun ==
    /\ ctx_future = [n \in Names |-> NoFuture]
    /\ pc = "idle"
    /\ jobs = 1
    /\ goals = << >>
    /\ plan = << >>
    /\ dispatched = << >>
    /\ futs = << >>
    /\ exc = "none"
    /\ invoked = [n \in Names |-> 0]
    /\ okdone = {}
    /\ bodyFailed = FALSE
    /\ runResult = "none"
    /\ runs = 0

InitMake ==
    /\ target_graph = << >>
    /\ target_funcs_by_name = << >>
    /\ task_dict = << >>
    /\ task_dict_lock = 0
    /\ outdated_target_funcs = {}

InitRegistry ==
    /\ task_contexts = << >>
    /\ graph_edges = {}
    /\ calls = 0
    /\ lastCall = NoCall
    /\ lastResult = "none"
    /\ regFailed = FALSE

\* No task under change detection and no lookup made.
InitDetect ==
    /\ inputs = << >>
    /\ outputs = << >>
    /\ mtime = [f \in Files |-> 0]
    /\ dependency = "none"
    /\ dependency_task = "none"
    /\ outdated_inputs = << >>
    /\ outdated_outputs = << >>
    /\ outcome = "none"
    /\ detect_pc = "idle"
    /\ detect_runs = 0
    /\ run_count = 0
    /\ lookup = NoLookup

\* No run or dry run under way and nothing written.
InitIO ==
    /\ dry_run_mode = FALSE
    /\ sink = << >>
    /\ ctx_io = [n \in Names |-> 0]
    /\ files = << >>
    /\ wrapper = [n \in Names |-> NoWrapper]

\* No exports, no defines and no subpake call.
InitSubpake ==
    /\ EXPORTS = << >>
    /\ defines = << >>
    /\ subpake_call = << >>
    /\ subpake_pc = "idle"
    /\ child = << >>
    /\ subpake_result = << >>
    /\ cwd = "start"
    /\ init_dir = "None"
    /\ directory = ""
    /\ program_pc = "uninit"
    /\ program_call = NoProgramCall
    /\ run_error = NoRunError
    /\ program_result = [kind |-> "none", code |-> "none"]
    /\ declared = [i |-> NoSpec, o |-> NoSpec]
    /\ realized = [i |-> << >>, o |-> << >>]

\* A fresh Pake or Make instance and a build script about to register its
\* tasks.
Init ==
    /\ InitRegistry
    /\ InitRun
    /\ InitMake
    /\ InitDetect
    /\ InitIO
    /\ InitSubpake
    /\ \/ engine = "pake" /\ script \in Pakefiles
       \/ engine = "make" /\ script \in Makefiles

Next ==
    \/ RegisterScript
    \/ RunStart
    \/ SeqStep
    \/ SeqReturn
    \/ Submit
    \/ WorkerStart
    \/ WorkerFinish
    \/ PoolExit
    \/ MakeRegisterScript
    \/ ExecuteStart
    \/ ExecuteDispatch
    \/ ExecuteRegisterTask
    \/ TargetWorkerStart
    \/ TargetWorkerLock
    \/ TargetWorkerDeps
    \/ ExecuteExit

Spec == Init /\ [][Next]_vars

\* The threads of a run of Make.execute are scheduled fairly: the calling
\* thread goes on with its loop, a free worker takes a submitted work item,
\* a thread that waits for the lock gets it when it stays free, and the
\* body of a target terminates.
SpecFair ==
    /\ Spec
    /\ WF_vars(ExecuteDispatch)
    /\ WF_vars(ExecuteRegisterTask)
    /\ WF_vars(TargetWorkerStart)
    /\ WF_vars(TargetWorkerLock)
    /\ WF_vars(TargetWorkerDeps)
    /\ WF_vars(WorkerFinish)
    /\ WF_vars(ExecuteExit)

\* A fresh Pake instance and registration calls with any arguments.
InitReg ==
    /\ InitRegistry
    /\ InitRun
    /\ InitMake
    /\ InitDetect
    /\ InitIO
    /\ InitSubpake
    /\ engine = "pake"
    /\ script = << >>

NextReg == RegisterAny

SpecReg == InitReg /\ [][NextReg]_vars

\* A build script registering its tasks, and a caller looking references up
\* in between.
NextLookup ==
    \/ RegisterScript
    \/ MakeRegisterScript
    \/ LookupTaskContext
    \/ LookupTaskName
    \/ LookupTarget

SpecLookup == Init /\ [][NextLookup]_vars

\* One task of a fresh instance with its declared files, the file system it
\* finds, and whether it has a dependency; the task is reached by run after
\* run.
InitCD ==
    /\ InitRegistry
    /\ InitRun
    /\ InitMake
    /\ script = << >>
    /\ engine \in {"pake", "make"}
    /\ inputs \in {SubSeq(InputFiles, 1, n) : n \in 0..Len(InputFiles)}
    /\ outputs \in {SubSeq(OutputFiles, 1, n) : n \in 0..Len(OutputFiles)}
    /\ mtime \in [Files -> 0..MaxTime]
    /\ \A f \in Files \ (Range(inputs) \cup Range(outputs)) : mtime[f] = 0
    /\ dependency \in {"none", "skipped"}
    /\ dependency_task = "none"
    /\ outdated_inputs = << >>
    /\ outdated_outputs = << >>
    /\ outcome = "none"
    /\ detect_pc = "idle"
    /\ detect_runs = 0
    /\ run_count = 0
    /\ lookup = NoLookup
    /\ InitIO
    /\ InitSubpake

NextCD ==
    \/ DetectStart
    \/ inner
    \/ ExecuteTarget
    \/ VisitTarget
    \/ TaskBody
    \/ DependencyBody

SpecCD == InitCD /\ [][NextCD]_vars

\* A Pake instance whose build script registers its tasks and then runs or
\* dry runs all of them once.
InitTaskIO ==
    /\ InitRegistry
    /\ InitRun
    /\ InitMake
    /\ InitDetect
    /\ InitIO
    /\ InitSubpake
    /\ engine = "pake"
    /\ script \in IOPakefiles

NextIO ==
    \/ RegisterScript
    \/ IORunStart
    \/ WrapperOpen
    \/ WrapperPrint
    \/ BodyPrint
    \/ BodyReturn
    \/ WrapperClose
    \/ IORunEnd

SpecIO == InitTaskIO /\ [][NextIO]_vars

\* A process that sets its defines and exports and runs another build script.
NextSubpake ==
    \/ program_init
    \/ export
    \/ subpake_spawn
    \/ child_init
    \/ child_exit
    \/ subpake_wait

SpecSubpake == InitReg /\ [][NextSubpake]_vars

\* A build script that calls init, registers its tasks and calls run.
NextProgram ==
    \/ program_init
    \/ RegisterScript
    \/ chdir
    \/ program_run_begin
    \/ program_run_engine
    \/ program_run_end

\* A task of Pake declared with input and output specifiers, and the input
\* files there are; the task is called in run after run.
InitParams ==
    /\ InitRegistry
    /\ InitRun
    /\ InitMake
    /\ InitIO
    /\ engine = "pake"
    /\ script = << >>
    /\ inputs = << >>
    /\ outputs = << >>
    /\ mtime \in [Files -> {0, 1}]
    /\ \A f \in Range(OutputFiles) : mtime[f] = 0
    /\ dependency = "none"
    /\ dependency_task = "none"
    /\ outdated_inputs = << >>
    /\ outdated_outputs = << >>
    /\ outcome = "none"
    /\ detect_pc = "idle"
    /\ detect_runs = 0
    /\ run_count = 0
    /\ lookup = NoLookup
    /\ EXPORTS = << >>
    /\ defines = << >>
    /\ subpake_call = << >>
    /\ subpake_pc = "idle"
    /\ child = << >>
    /\ subpake_result = << >>
    /\ cwd = "start"
    /\ init_dir = "None"
    /\ directory = ""
    /\ program_pc = "uninit"
    /\ program_call = NoProgramCall
    /\ run_error = NoRunError
    /\ program_result = [kind |-> "none", code |-> "none"]
    /\ declared \in [i : InputSpecs, o : OutputSpecs]
    /\ realized = [i |-> << >>, o |-> << >>]

NextParams == ResolveParams \/ FilesChange

SpecParams == InitParams /\ [][NextParams]_vars

InitProgram ==
    /\ InitRegistry
    /\ InitRun
    /\ InitMake
    /\ InitDetect
    /\ InitIO
    /\ InitSubpake
    /\ engine = "pake"
    /\ script \in IOPakefiles \cup {<< >>}

SpecProgram == InitProgram /\ [][NextProgram]_vars

(***************************************************************************)
(* Properties.                                                             *)
(***************************************************************************)
\* The names of the registered tasks.
Registered ==
    IF engine = "pake" THEN DOMAIN task_contexts ELSE DOMAIN target_funcs_by_name

\* The dependency graph over the task names, and the edges of its root.
DepGraph ==
    IF engine = "pake"
    THEN task_contexts
    ELSE [n \in DOMAIN target_funcs_by_name |->
             [edges |-> {Ident(d) : d \in
                           Range(target_graph[target_funcs_by_name[n]].dependencies)}]]
RootEdges == IF engine = "pake" THEN graph_edges ELSE {}

\* The engine's exceptions for a cycle and for an unregistered reference.
CyclicError == IF engine = "pake" THEN "CyclicGraph" ELSE "CyclicDependency"
UndefinedError == IF engine = "pake" THEN "UndefinedTask" ELSE "UndefinedTarget"

\* The body of task n is invoked in this step.
BodyStarts(n) == invoked'[n] > invoked[n]

\* C1: no task body starts before each of its direct dependencies has, in
\* this run, finished its body successfully or been skipped as up to date.
C1_DependenciesFirst ==
    [][\A n \in Names :
          BodyStarts(n) =>
              /\ n \in Registered
              /\ \A d \in DepGraph[n].edges : d \in okdone]_vars

\* A pool run of the diamond in which d's body started after b was skipped
\* and c's body returned.
C1_Witness ==
    /\ jobs = 2
    /\ engine = "pake"
    /\ "d" \in DOMAIN task_contexts
    /\ invoked["d"] = 1
    /\ task_contexts["d"].edges = {"b", "c"}
    /\ invoked["b"] = 0
    /\ invoked["c"] = 1

\* C2: a task dispatched before task U is never a transitive dependent of U.
C2_DispatchOrderTopological ==
    \A i, j \in 1..Len(dispatched) :
        i < j => dispatched[j] \notin Below(DepGraph, RootEdges, dispatched[i])

\* C3: in a single run every task body is invoked at most once.
C3_BodyAtMostOnce == \A n \in Names : invoked[n] <= 1

\* C4: a run in which a task body raised does not return normally, it raises
\* a TaskException carrying the original exception.
C4_FailedRunRaisesTaskException ==
    (pc = "idle" /\ runs > 0 /\ bodyFailed) =>
        (runResult # "returned" /\ runResult = "TaskException")

\* C5: once a task body has failed in a run no further body starts, and run
\* returns only when no body is in flight.
C5_NoStartAfterFailure ==
    /\ [][(bodyFailed /\ runs' = runs) => \A n \in Names : ~BodyStarts(n)]_vars
    /\ [](pc = "idle" => Running \cup Busy = {})

\* The goals of the current run are all registered.
GoalsRegistered == \A i \in 1..Len(goals) : goals[i] \in Registered

\* The nodes the current run sorts: its goals or, without goals, the root.
SortRoots == IF goals = << >> THEN {Root} ELSE {goals[i] : i \in 1..Len(goals)}

HasUnregisteredDependency(call) ==
    \/ /\ call.kind \in {"add", "deco"}
       /\ call.name \notin DOMAIN task_contexts
       /\ \E i \in 1..Len(call.deps) :
             /\ call.deps[i] \in Names
             /\ call.deps[i] \notin DOMAIN task_contexts \cup {call.name}
    \/ /\ call.kind \in {"target", "target_io"}
       /\ call.func \notin DOMAIN target_graph
       /\ \E i \in 1..Len(call.deps) :
             /\ call.deps[i] \in Names
             /\ call.deps[i] \notin DOMAIN target_funcs_by_name

\* This step is a registration call.
IsCall == calls' = calls + 1

CycleBeforeUnregistered ==
    \E i \in 1..Len(goals) :
        /\ \A k \in 1..i : goals[k] \in Registered
        /\ HasCycle(DepGraph, RootEdges, goals[i])

C8_DuplicateNameRaises ==
    [][(IsCall /\ lastCall'.name \in Registered)
           => lastResult' = "RedefinedTask"]_vars

\* C9: a registration call that raises leaves the registry, the edges and
\* the task count as they were.
C9_FailedRegistrationChangesNothing ==
    [][(IsCall /\ lastResult' \in Exceptions)
           => /\ task_contexts' = task_contexts
              /\ graph_edges' = graph_edges]_vars

\* C10: after successful registrations, lookup by name and lookup by function
\* return the task's own record, and the reverse lookup of the function
\* returns the task's name.
C10_LookupsAgree ==
    ~regFailed =>
        \A n \in Registered :
            /\ get_task_context(task_contexts, n).raised = "none"
            /\ get_task_context(task_contexts, n).ctx = task_contexts[n]
            /\ get_task_context(task_contexts, task_contexts[n].func).raised = "none"
            /\ get_task_context(task_contexts, task_contexts[n].func).name = n
            /\ get_task_name(task_contexts, task_contexts[n].func) = n

\* A reference no registration has stored: a name without a record, a
\* function that is the function of no record.
IsUnregistered(ref) ==
    IF ref \in Names
    THEN ref \notin Registered
    ELSE IF engine = "pake"
         THEN \A n \in DOMAIN task_contexts : task_contexts[n].func # ref
         ELSE ref \notin DOMAIN target_graph

\* C11: a lookup or a reverse name lookup of a name or a function that is
\* not registered raises the undefined task exception of the engine, and no
\* lookup changes the registry.
C11_UnknownLookupRaises ==
    [][lookup' # lookup
           => /\ IsUnregistered(lookup'.ref) => lookup'.result = UndefinedError
              /\ UNCHANGED << task_contexts, graph_edges, target_graph,
                              target_funcs_by_name >>]_vars

(***************************************************************************)
(* Change detection properties.                                            *)
(***************************************************************************)
\* A run, not a dry run, has decided about the task and the file system is
\* still the one the decision saw.
Detected ==
    /\ detect_runs > 0
    /\ ~dry_run_mode
    /\ \/ detect_pc = "body"
       \/ detect_pc = "idle" /\ outcome # "run"

\* The freshness comparator and the outdated pair of the decision table.
input_newer(ip, op) == getmtime(mtime, ip) - getmtime(mtime, op) > Tolerance
OutdatedPair(ip, op) == ~isfile(mtime, op) \/ input_newer(ip, op)
\* An output older than the input by any amount: whether an age within the
\* tolerance counts is the matter of C20 and is left open elsewhere.
OlderPair(ip, op) == ~isfile(mtime, op) \/ getmtime(mtime, op) < getmtime(mtime, ip)
InputsExist == \A ip \in Range(inputs) : isfile(mtime, ip)
MissingOutputs == {op \in Range(outputs) : ~isfile(mtime, op)}

\* C12: a task skipped in a run has, after the run, empty outdated inputs
\* and outputs, and no direct dependency of it executed in that run; in the
\* first run and in every later one.
C12_SkippedIsUpToDate ==
    (Detected /\ outcome = "skip")
        => /\ outdated_inputs = << >>
           /\ outdated_outputs = << >>
           /\ dependency # "ran"

\* C13: after a run that left every output present and not older than the
\* inputs, the next run, with the file system unchanged and no dependency
\* executed, invokes no body and counts no run.
C13_SecondRunDoesNothing ==
    (/\ Detected
     /\ detect_runs >= 2
     /\ outputs # << >>
     /\ InputsExist
     /\ \A op \in Range(outputs) :
           /\ isfile(mtime, op)
           /\ \A ip \in Range(inputs) : getmtime(mtime, op) >= getmtime(mtime, ip)
     /\ dependency # "ran")
        => /\ outcome = "skip"
           /\ run_count = 0

\* C14: a task without inputs and without outputs has its body invoked in
\* every run that reaches it, with or without dependencies, whether they ran
\* or were skipped.
C14_NoFilesAlwaysRuns ==
    (Detected /\ inputs = << >> /\ outputs = << >>) => outcome = "run"

\* C15: a task with inputs and without outputs fails with MissingOutputs and
\* its body is not invoked, with or without dependencies.
C15_InputsWithoutOutputsFail ==
    (Detected /\ inputs # << >> /\ outputs = << >>) => outcome = "MissingOutputs"

\* C16: a task with outputs one of whose inputs does not exist fails with
\* InputNotFound and its body is not invoked, whether or not its outputs
\* exist.
C16_MissingInputFails ==
    (Detected /\ outputs # << >> /\ ~InputsExist) => outcome = "InputNotFound"

\* C17: with as many outputs as inputs, the outdated inputs and outputs are
\* the pairs, in order, whose output is missing or older than its input, and
\* nothing else: every pair whose output is missing or older beyond the
\* tolerance is listed, and no pair whose output is present and not older.
C17_PairsByIndex ==
    (/\ Detected
     /\ Len(inputs) >= 1
     /\ Len(inputs) = Len(outputs)
     /\ InputsExist)
        => \E K \in SUBSET (1..Len(inputs)) :
              /\ \A k \in 1..Len(inputs) :
                    /\ OutdatedPair(inputs[k], outputs[k]) => k \in K
                    /\ k \in K => OlderPair(inputs[k], outputs[k])
              /\ outdated_inputs = SelectAt(inputs, K, 1)
              /\ outdated_outputs = SelectAt(outputs, K, 1)

\* C18: with more than one output and a different number of inputs, an input
\* is outdated exactly when some output is missing or older than it, and an
\* output exactly when it is missing or older than some input.
C18_Cartesian ==
    (/\ Detected
     /\ Len(inputs) >= 1
     /\ Len(outputs) > 1
     /\ Len(outputs) # Len(inputs)
     /\ InputsExist)
        => /\ \A ip \in Range(inputs) :
                 /\ (\E op \in Range(outputs) : OutdatedPair(ip, op))
                        => ip \in Range(outdated_inputs)
                 /\ ip \in Range(outdated_inputs)
                        => \E op \in Range(outputs) : OlderPair(ip, op)
           /\ \A op \in Range(outputs) :
                 /\ (\E ip \in Range(inputs) : OutdatedPair(ip, op))
                        => op \in Range(outdated_outputs)
                 /\ op \in Range(outdated_outputs)
                        => \E ip \in Range(inputs) : OlderPair(ip, op)
           /\ Range(outdated_inputs) \subseteq Range(inputs)
           /\ Range(outdated_outputs) \subseteq Range(outputs)

\* C19: a task without inputs and with outputs is outdated exactly when some
\* output is missing, its outdated outputs are the missing outputs, and with
\* all of them present its body is skipped.
C19_OutputsOnly ==
    (Detected /\ inputs = << >> /\ outputs # << >> /\ dependency # "ran")
        => /\ Range(outdated_outputs) = MissingOutputs
           /\ outcome = (IF MissingOutputs = {} THEN "skip" ELSE "run")

\* C20: no input that is newer than an existing output by 0.1 s or less
\* makes anything outdated, in whichever branch of the detection.
C20_ToleranceEverywhere ==
    (/\ Detected
     /\ detect_runs = 1
     /\ dependency # "ran"
     /\ inputs # << >>
     /\ outputs # << >>
     /\ InputsExist
     /\ MissingOutputs = {}
     /\ \A ip \in Range(inputs), op \in Range(outputs) : ~input_newer(ip, op))
        => /\ outcome = "skip"
           /\ outdated_inputs = << >>
           /\ outdated_outputs = << >>

\* C21: after any sequence of runs and dry runs, every outdated input of the
\* task is one of its realized inputs and every outdated output one of its
\* realized outputs.
C21_OutdatedWithinDeclared ==
    /\ Range(outdated_inputs) \subseteq Range(inputs)
    /\ Range(outdated_outputs) \subseteq Range(outputs)

\* A second pass, a dry run, over a task that has an outdated pair.
C21_Witness ==
    /\ detect_runs = 2
    /\ dry_run_mode
    /\ detect_pc = "idle"
    /\ outcome = "visited"
    /\ Len(inputs) = 2
    /\ outdated_inputs # << >>
    /\ outdated_outputs # << >>

\* C25: a dry run never invokes a task function, whatever the files: a task
\* found eligible gets its visited line and nothing else, a task found up to
\* date gets nothing.
C25_DryRunInvokesNoBody ==
    dry_run_mode
        => /\ detect_pc # "body"
           /\ detect_pc = "idle" => outcome # "run"
           /\ run_count > 0 => outcome = "visited"

\* A dry run has visited a task whose output is missing.
C25_Witness ==
    /\ dry_run_mode
    /\ detect_pc = "idle"
    /\ outcome = "visited"
    /\ outputs # << >>
    /\ MissingOutputs # {}

\* The number of task functions invoked in the run.
RECURSIVE SumInvoked(_)
SumInvoked(S) ==
    IF S = {} THEN 0
    ELSE LET n == CHOOSE x \in S : TRUE IN invoked[n] + SumInvoked(S \ {n})

\* C22: when a run ends, run_count is the number of task functions invoked
\* in that run: a skipped task and a task that never started because a
\* dependency failed are not counted.
C22_RunCountIsBodiesInvoked ==
    [][(pc # "idle" /\ pc' = "idle") => run_count' = SumInvoked(Names)']_vars

\* C30: a run with an empty goal list fails with NoTasksSpecified and invokes
\* no task function; the driver returns NO_TASKS_SPECIFIED for it, and
\* NO_TASKS_DEFINED when no task is registered.
C30_EmptyGoalListFails ==
    [][(runs' > 0 /\ goals' = << >> /\ jobs' >= 1)
           => /\ runResult' = "NoTasksSpecified"
              /\ SumInvoked(Names)' = 0
              /\ program_run(Cardinality(Registered), goals)' =
                     (IF Registered' = {} THEN "NO_TASKS_DEFINED"
                      ELSE "NO_TASKS_SPECIFIED")]_vars

(***************************************************************************)
(* Task output properties.                                                 *)
(***************************************************************************)
\* C23: with more than one job, the lines of each task stand together in
\* Pake.stdout: no line of another task stands between two lines of a task.
C23_BlocksContiguous ==
    jobs > 1
        => \A i, j, k \in 1..Len(sink) :
              (i < j /\ j < k /\ sink[i].task = sink[k].task)
                  => sink[j].task = sink[i].task

\* C24: once the function of a task has raised and the failure has left
\* func_wrapper, every line the task wrote to its buffer is in Pake.stdout
\* and the buffer is closed.
C24_FailedTaskFlushed ==
    \A t \in Names :
        (wrapper[t].pc = "finished" /\ wrapper[t].raised = "TaskError")
            => /\ Cardinality({i \in 1..Len(sink) :
                                  sink[i].task = t /\ sink[i].text # "unbuffered"})
                      = wrapper[t].buffered
               /\ files[ctx_io[wrapper[t].ctx]].closed

\* Contiguous blocks and flushed failures for build scripts whose tasks are
\* all registered under the name of their own function.
OwnNamesContiguous ==
    (\A n \in Registered : Ident(task_contexts[n].func) = n) => C23_BlocksContiguous
OwnNamesFlushed ==
    (\A n \in Registered : Ident(task_contexts[n].func) = n) => C24_FailedTaskFlushed

(***************************************************************************)
(* Subpake and define properties.                                          *)
(***************************************************************************)
SameStore(a, b) ==
    /\ DOMAIN a = DOMAIN b
    /\ \A k \in DOMAIN a : a[k] = b[k]

\* A call of the given bridge has come to the given place.
CallAt(bridge, place) ==
    /\ subpake_pc = place
    /\ DOMAIN subpake_call # {}
    /\ subpake_call.bridge = bridge

\* C26: after the startup of the child of a subpake call, the defines of the
\* child are the defines of the calling process, those of its -D arguments
\* included.
C26_ChildHoldsParentDefines ==
    CallAt("subpake", "started") => SameStore(child.defines, defines)

\* A child that reads the mapping of --stdin-defines holds the exports of
\* the calling process.
ChildHoldsExports ==
    (CallAt("subpake", "started") /\ child.reads_stdin)
        => SameStore(child.defines, EXPORTS)

\* C27: every exported value reaches the child as the value it was: through
\* the stdin mapping of subpake, for a child that reads it, and through the
\* -D arguments of run_script, where no value makes the child fail either.
C27_ValuesRoundTrip ==
    /\ (CallAt("subpake", "started") /\ child.reads_stdin)
           => SameStore(literal_eval_dict(child.stdin), EXPORTS)
    /\ CallAt("run_script", "started") => SameStore(child.defines, EXPORTS)
    /\ CallAt("run_script", "exited") => child.output # << "ValueError" >>

\* The round trip through the stdin mapping alone.
StdinRoundTrip ==
    (CallAt("subpake", "started") /\ child.reads_stdin)
        => /\ SameStore(literal_eval_dict(child.stdin), EXPORTS)
           /\ SameStore(child.defines, EXPORTS)

\* C28, as stated: a call of subpake with ignore_errors raises nothing, does
\* not end the process and returns the exit code of the child, whatever the
\* script argument.
C28_IgnoreErrorsAnyScript ==
    (CallAt("subpake", "done") /\ subpake_call.ignore_errors)
        => /\ subpake_result.kind = "return"
           /\ subpake_result.code = child.exitcode

\* C28, amended: a call of subpake with ignore_errors whose script is an
\* existing file raises nothing, does not end the process and returns the
\* exit code of the child, whatever silent, collect_output and
\* exit_on_error are.
C28_IgnoreErrorsReturnsCode ==
    (CallAt("subpake", "done") /\ subpake_call.ignore_errors
        /\ subpake_call.script = "file")
        => /\ subpake_result.kind = "return"
           /\ subpake_result.code = child.exitcode

C28_Witness ==
    /\ CallAt("subpake", "done")
    /\ subpake_call.ignore_errors
    /\ subpake_call.exit_on_error
    /\ subpake_call.script = "file"
    /\ child.exitcode # 0
    /\ subpake_result.kind = "return"

\* C29: a call of subpake without ignore_errors whose child exits non-zero
\* ends the process with SUBPAKE_EXCEPTION after writing the captured output
\* to stderr when exit_on_error is set, and otherwise raises SubpakeException
\* with the command, the exit code and the captured output, silent or not; a
\* child that exits zero makes the call return 0.
C29_FailureIsReported ==
    (CallAt("subpake", "done") /\ ~subpake_call.ignore_errors
        /\ subpake_call.script = "file")
        => /\ (child.exitcode # 0 /\ subpake_call.exit_on_error)
                  => /\ subpake_result.kind = "exit"
                     /\ subpake_result.name = "SUBPAKE_EXCEPTION"
                     /\ Len(subpake_result.stderr) >= Len(child.output)
                     /\ SubSeq(subpake_result.stderr,
                               Len(subpake_result.stderr) - Len(child.output) + 1,
                               Len(subpake_result.stderr)) = child.output
           /\ (child.exitcode # 0 /\ ~subpake_call.exit_on_error)
                  => /\ subpake_result.kind = "raise"
                     /\ subpake_result.name = "SubpakeException"
                     /\ subpake_result.ex.cmd = ChildCommand(subpake_call)
                     /\ subpake_result.ex.returncode = child.exitcode
                     /\ subpake_result.ex.output = child.output
           /\ child.exitcode = 0
                  => /\ subpake_result.kind = "return"
                     /\ subpake_result.code = 0

C29_Witness ==
    /\ CallAt("subpake", "done")
    /\ ~subpake_call.ignore_errors
    /\ ~subpake_call.exit_on_error
    /\ subpake_call.silent
    /\ subpake_call.script = "file"
    /\ child.exitcode # 0
    /\ child.output # << >>
    /\ subpake_result.kind = "raise"
    /\ subpake_result.ex.output = child.output

(***************************************************************************)
(* Driver properties.                                                      *)
(***************************************************************************)
\* The return code the driver owes to an outcome of the engine.
ExpectedCode(err) ==
    CASE err.kind = "none" -> "SUCCESS"
      [] err.kind = "InputNotFoundException" -> "TASK_INPUT_NOT_FOUND"
      [] err.kind = "MissingOutputsException" -> "TASK_OUTPUT_MISSING"
      [] err.kind = "UndefinedTaskException" -> "UNDEFINED_TASK"
      [] err.kind = "CyclicGraphException" -> "CYCLIC_DEPENDENCY"
      [] err.kind = "TaskException" /\ err.cause = "SubpakeException"
            -> "SUBPAKE_EXCEPTION"
      [] err.kind = "TaskException" /\ err.cause = "SubprocessException"
            -> "TASK_SUBPROCESS_EXCEPTION"
      [] OTHER -> "TASK_EXCEPTION"

C40_DirectoryRestored ==
    (program_pc = "returned" /\ program_result.kind = "return") => cwd = init_dir

\* The same for the returns that follow a run of the engine.
RunRestoresDirectory ==
    (program_pc = "returned" /\ program_result.kind = "return"
        /\ ~program_call.dry_run
        /\ program_result.code \notin {"BAD_ARGUMENTS", "NO_TASKS_DEFINED",
                                       "NO_TASKS_SPECIFIED"}
        /\ ~(program_call.show_tasks \/ program_call.show_task_info))
        => cwd = init_dir

(***************************************************************************)
(* Scheduling properties.                                                  *)
(***************************************************************************)
\* C32: never more than jobs task functions are running, and with one job
\* the thread of the run takes up the next task of the order, its change
\* detection included, only while no task function is running.
C32_JobsBoundAndSequential ==
    [][/\ Cardinality(Running') <= jobs'
       /\ (jobs = 1 /\ (SeqStep \/ ExecuteDispatch)) => Running = {}]_vars

\* The same for the runs of Pake alone.
PakeJobsBoundAndSequential ==
    [][engine = "pake"
          => /\ Cardinality(Running') <= jobs'
             /\ (jobs = 1 /\ (SeqStep \/ ExecuteDispatch)) => Running = {}]_vars

\* Never more than jobs task functions are running, in both engines.
JobsBound == Cardinality(Running) <= jobs

\* C33: the change detection of a task is made only when the function of
\* its dependency has returned, so that an input the dependency writes is
\* found.
C33_DetectionAfterDependencies ==
    [][(detect_pc = "detect" /\ detect_pc' # "detect")
          => dependency_task # "running"]_vars

\* The same for Pake alone.
PakeDetectionAfterDependencies ==
    [][(engine = "pake" /\ detect_pc = "detect" /\ detect_pc' # "detect")
          => dependency_task # "running"]_vars

\* The check of a target of Make.execute has raised for an input that the
\* function of its dependency, running still, went on to write.
InputWrittenAfterCheck ==
    /\ engine = "make"
    /\ outcome = TargetInputNotFound
    /\ dependency_task = "done"
    /\ inputs # << >>
    /\ \A k \in 1..Len(inputs) : isfile(mtime, inputs[k])
    /\ detect_runs = 1
    /\ detect_pc = "idle"

\* C34: Make.visit visits a target exactly when Make.execute, from the same
\* files and with the same outcome of the dependency, finds it out of date;
\* a target whose dependency was visited is visited.
C34_VisitMatchesExecute ==
    (engine = "make" /\ dry_run_mode /\ detect_pc = "idle"
        /\ outcome \in {"visited", "skip"})
        => /\ (outcome = "visited")
                  = handle_target_out_of_date(inputs, outputs, mtime, dependency,
                                              << >>, << >>).run
           /\ dependency = "ran" => outcome = "visited"

\* A visit and an execute agree on a target that has no dependency or whose
\* dependency was up to date.
VisitMatchesExecuteAlone ==
    (engine = "make" /\ dry_run_mode /\ detect_pc = "idle"
        /\ outcome \in {"visited", "skip"} /\ dependency # "ran")
        => (outcome = "visited")
               = handle_target_out_of_date(inputs, outputs, mtime, dependency,
                                           << >>, << >>).run


\* What the resolution of the input specifiers is to give: every deferred
\* producer replaced by the input files there are.
ResolvedInputs(i, fs) ==
    IF i.kind = "None" THEN << >>
    ELSE IF i.kind = "glob" THEN input_generator(fs)
    ELSE IF i.kind = "path" THEN << i >>
    ELSE flatten_non_str([idx \in 1..Len(i.v) |->
             IF i.v[idx].kind = "glob" THEN ListSpec(input_generator(fs)) ELSE i.v[idx]])

\* What the resolution of the output specifiers is to give: every pattern
\* transformer replaced by one path for every realized input.
ResolvedOutputs(o, ri) ==
    IF o.kind = "None" THEN << >>
    ELSE IF o.kind = "pattern" THEN [k \in 1..Len(ri) |-> Template(ri[k])]
    ELSE IF o.kind = "path" THEN << o >>
    ELSE flatten_non_str([idx \in 1..Len(o.v) |->
             IF o.v[idx].kind = "pattern"
             THEN ListSpec([k \in 1..Len(ri) |-> Template(ri[k])]) ELSE o.v[idx]])

\* C35: the resolved outputs of a task are paths only; every pattern
\* transformer, alone or in a list of output specifiers, is replaced by its
\* result on the realized inputs, the k-th path made of the k-th input.
C35_OutputsArePaths ==
    detect_runs > 0
        => /\ \A k \in 1..Len(realized.o) : realized.o[k].kind = "path"
           /\ realized.o = ResolvedOutputs(declared.o, realized.i)

\* The same for a task whose output specifier is not a list.
SoleOutputIsPaths ==
    (detect_runs > 0 /\ declared.o.kind # "list")
        => /\ \A k \in 1..Len(realized.o) : realized.o[k].kind = "path"
           /\ realized.o = ResolvedOutputs(declared.o, realized.i)

\* A sole pattern transformer has made a path of each of two inputs.
SolePatternResolved ==
    /\ detect_runs > 0
    /\ declared.o.kind = "pattern"
    /\ Len(realized.i) = 2
    /\ Len(realized.o) = 2

\* C39: a resolution leaves the declared specifiers of the task as they
\* were, and in every run every deferred producer is called again on the
\* files there are then.
C39_DeclaredUnchanged ==
    [][(detect_runs' = detect_runs + 1)
          => /\ declared' = declared
             /\ realized'.i = ResolvedInputs(declared.i, mtime)]_vars

\* The same for a task whose input specifier is not a list.
SoleInputDeclaredUnchanged ==
    [][(detect_runs' = detect_runs + 1 /\ declared.i.kind # "list")
          => /\ declared' = declared
             /\ realized'.i = ResolvedInputs(declared.i, mtime)]_vars


\* C36: a child of TaskContext.subpake that exits non-zero makes the call
\* raise SubpakeException into the task function; the call never ends the
\* process or the thread by exit.
C36_ContextSubpakeRaises ==
    (CallAt("ctx.subpake", "done") /\ subpake_call.script = "file")
        => /\ subpake_result.kind # "exit"
           /\ child.exitcode # 0
                 => /\ subpake_result.kind = "raise"
                    /\ subpake_result.name = "SubpakeException"

\* A child of TaskContext.subpake that exits zero lets the call return.
ContextSubpakeReturns ==
    (CallAt("ctx.subpake", "done") /\ subpake_call.script = "file" /\ child.exitcode = 0)
        => subpake_result.kind = "return"


\* C37: a call of Make.execute that has entered its loop comes to its end,
\* whatever the job count and the interleaving of the calling thread and
\* the workers.
C37_ExecuteTerminates ==
    (engine = "make" /\ pc \in {"exec", "exec_register", "exec_raising"}) ~> (pc = "idle")

\* The same with one job: the one worker runs the work items one after the
\* other, and a dependency is done before its dependent takes the lock.
ExecuteTerminatesOneJob ==
    (engine = "make" /\ jobs = 1 /\ pc \in {"exec", "exec_register", "exec_raising"})
        ~> (pc = "idle")

\* A worker holds the lock and waits for the future of a dependency whose
\* worker waits for the lock.
LockHeldForWaitingDependency ==
    /\ engine = "make"
    /\ task_dict_lock # 0
    /\ futs[task_dict_lock].st = "deps"
    /\ \E d \in Range(DepFutures(futs[task_dict_lock].task)) :
          futs[task_dict[d]].st = "locking"


\* C38: when execute, visit, run or dry_run has returned or raised, no
\* target is marked as re-executed, no submitted work is on record and
\* dry-run mode is off.
C38_NoBookkeepingLeft ==
    (pc = "idle" /\ runs > 0)
        => /\ outdated_target_funcs = {}
           /\ task_dict = << >>
           /\ ~dry_run_mode

\* The same for the calls that returned.
NoBookkeepingLeftOnReturn ==
    (pc = "idle" /\ runs > 0 /\ runResult = "returned")
        => /\ outdated_target_funcs = {}
           /\ task_dict = << >>
           /\ ~dry_run_mode

\* Make.execute has raised with a target marked and its future on record.
ExecuteRaisedWithMarks ==
    /\ engine = "make"
    /\ pc = "idle"
    /\ runs > 0
    /\ runResult = TargetInputNotFound
    /\ outdated_target_funcs # {}
    /\ task_dict # << >>

=============================================================================
